---- MODULE Spec2Model ----
(***************************************************************************)
(* Pairs-monitoring signal engine of services/multi_monitor.py:            *)
(* RollingZScore, SignalEngine, get_tick_state, PairRuntime and the poll   *)
(* loop of main().                                                         *)
(*                                                                         *)
(* Numbers.  Prices are powers of two and logarithms are taken in units of *)
(* ln 2, so every log-price, spread and P&L is an integer on that grid.    *)
(* A z-score is kept exactly as the pair [n, q] that stands for the real   *)
(* number n / sqrt(q) (q > 0); a threshold is the rational num / den       *)
(* (den > 0); a standard deviation is [q, n] standing for sqrt(q) / n.     *)
(* All comparisons are done by cross-multiplication and squaring, with no  *)
(* rounding.  On the integer grid a standard deviation is either 0 or at   *)
(* least 1/n, so "std < EPS_STD" (1e-9) is "q = 0", and two spreads differ *)
(* by more than 1e-9 exactly when they differ.                             *)
(*                                                                         *)
(* Optional values (Python None) are sequences of length 0 or 1.           *)
(***************************************************************************)
EXTENDS Integers, Sequences, FiniteSets, TLC

VARIABLES
    pc,               \* main(): "loop", "crashed" once an exception has left it, or
                      \* "stopped" once a KeyboardInterrupt has
    idx,              \* position of the for loop over runtimes (Len + 1: all stepped)
    cycle,            \* completed iterations of the while loop
    now,              \* wall clock, time.time()
    runtimes,         \* the PairRuntime objects, in configured order
    LAST_TICK_MSC,    \* _LAST_TICK_MSC
    LAST_SEEN_LOCAL,  \* _LAST_SEEN_LOCAL
    market,           \* the terminal: the latest tick of each symbol, if any
    trades,           \* rows appended to data/trades_multi.csv
    monitor_state,    \* the document last written to monitor_state.json
    PAIR_HISTORY,     \* _PAIR_HISTORY: the history buffer of each pair stepped so far
    monitor_history,  \* the document last written to monitor_history.json
    connected,        \* the MT5 connection (closed by the finally clause)
    last_res,         \* what the last rt.step() returned, and for which runtime
    solo,             \* the last configured pair run on its own: runtime and caches
    eng,              \* a SignalEngine driven directly: [enter_z, exit_band, pos]
    eng_in,           \* the (z, spread) arguments passed to it so far
    eng_out,          \* the results on_tick returned, in order
    g_rt,             \* a PairRuntime whose evaluation stage is driven directly
    g_hist,           \* the spreads fed to it and the z and signal it reported
    obs,              \* get_tick_state called directly: the polls made and their results
    rz,               \* a RollingZScore driven directly
    rz_in,            \* the values passed to its update so far
    rz_out,           \* what update returned for each of them
    fs,               \* the data directory: the inode each name is bound to, and the inodes
    wr,               \* write_monitor_state in progress: its position, document and file
    rd,               \* a reader of the published document: its position, file and buffer
    cal,              \* a calibration called directly: the two series and what came out
    rp,               \* a PairReplay and the replay's trade log
    ltp,              \* load_top_pairs called at startup: the files, the terminal, the result
    rst,              \* detect_demo_reset_for_open_trades: a trade, the broker, the outcome
    resolved          \* _resolve_position_id called directly: the order result, the
                      \* deal history and what came back

monitor_vars == <<pc, idx, cycle, now, runtimes, LAST_TICK_MSC, LAST_SEEN_LOCAL,
                  market, trades, monitor_state, PAIR_HISTORY, monitor_history,
                  connected, last_res, solo>>

engine_vars == <<eng, eng_in, eng_out>>

gate_vars == <<g_rt, g_hist>>

tick_vars == <<obs>>

\* the variables that only the directly driven components use
est_vars == <<rz, rz_in, rz_out>>

\* the published file, its writer and its reader, stepped one system call at
\* a time
file_vars == <<fs, wr, rd>>

\* the components that run outside the poll loop
offline_vars == <<cal, rp, ltp, rst, resolved>>

side_vars == <<tick_vars, est_vars, file_vars, offline_vars>>

vars == <<pc, idx, cycle, now, runtimes, LAST_TICK_MSC, LAST_SEEN_LOCAL,
          market, trades, monitor_state, PAIR_HISTORY, monitor_history, connected,
          last_res, solo, eng, eng_in, eng_out, g_rt, g_hist, obs, rz, rz_in, rz_out,
          fs, wr, rd, cal, rp, ltp, rst, resolved>>

----------------------------------------------------------------------------
(* Optional values *)

None == <<>>

Some(v) == <<v>>

IsNone(o) == o = <<>>

Get(o) == o[1]

\* the single element of a one-element set; "Only({ e(x) : x \in {v} })" is
\* "LET x == v IN e(x)" with v computed once
Only(S) == CHOOSE e \in S : TRUE

Abs(i) == IF i < 0 THEN -i ELSE i

(* Exact arithmetic on z-scores n / sqrt(q) and thresholds num / den *)

Rat(a, b) == [num |-> a, den |-> b]

ZVal(n, q) == [n |-> n, q |-> q]

\* z >= t
ZGe(z, t) ==
    LET l == t.den * z.n
        r == t.num
    IN  IF r >= 0
        THEN l >= 0 /\ l * l >= r * r * z.q
        ELSE l >= 0 \/ l * l <= r * r * z.q

ZNeg(z) == [n |-> -z.n, q |-> z.q]

RatNeg(t) == [num |-> -t.num, den |-> t.den]

\* z <= t
ZLe(z, t) == ZGe(ZNeg(z), RatNeg(t))

\* abs(z)
ZAbs(z) == [n |-> Abs(z.n), q |-> z.q]

\* a > b for two non-negative z values
ZGt(a, b) == a.n * a.n * b.q > b.n * b.n * a.q

----------------------------------------------------------------------------
(* SignalEngine *)

Position(side, z, spread) == [side |-> side, entry_z |-> z, entry_spread |-> spread]

SignalEngine(enter_z, exit_band) ==
    [enter_z |-> enter_z, exit_band |-> exit_band, pos |-> None]

\* on_tick entering on z > enter_z and z < -enter_z only
on_tick_strict(self, z, spread) ==
    IF IsNone(self.pos)
    THEN IF ~ZLe(z, self.enter_z)
         THEN [self |-> [self EXCEPT !.pos = Some(Position("SHORT_SPREAD", z, spread))],
               status |-> "ENTER", side |-> "SHORT_SPREAD", pnl |-> None]
         ELSE IF ~ZGe(z, RatNeg(self.enter_z))
         THEN [self |-> [self EXCEPT !.pos = Some(Position("LONG_SPREAD", z, spread))],
               status |-> "ENTER", side |-> "LONG_SPREAD", pnl |-> None]
         ELSE [self |-> self, status |-> "HOLD", side |-> "", pnl |-> None]
    ELSE IF ZLe(ZAbs(z), self.exit_band)
         THEN LET p == Get(self.pos)
                  pnl == IF p.side = "LONG_SPREAD"
                         THEN spread - p.entry_spread
                         ELSE p.entry_spread - spread
              IN  [self |-> [self EXCEPT !.pos = None],
                   status |-> "EXIT", side |-> p.side, pnl |-> Some(pnl)]
         ELSE [self |-> self, status |-> "IN_POSITION", side |-> Get(self.pos).side,
               pnl |-> None]

\* on_tick returning EXIT without the side of the position it closed
on_tick_exit_side_lost(self, z, spread) ==
    IF IsNone(self.pos)
    THEN IF ZGe(z, self.enter_z)
         THEN [self |-> [self EXCEPT !.pos = Some(Position("SHORT_SPREAD", z, spread))],
               status |-> "ENTER", side |-> "SHORT_SPREAD", pnl |-> None]
         ELSE IF ZLe(z, RatNeg(self.enter_z))
         THEN [self |-> [self EXCEPT !.pos = Some(Position("LONG_SPREAD", z, spread))],
               status |-> "ENTER", side |-> "LONG_SPREAD", pnl |-> None]
         ELSE [self |-> self, status |-> "HOLD", side |-> "", pnl |-> None]
    ELSE IF ZLe(ZAbs(z), self.exit_band)
         THEN LET p == Get(self.pos)
                  pnl == IF p.side = "LONG_SPREAD"
                         THEN spread - p.entry_spread
                         ELSE p.entry_spread - spread
              IN  [self |-> [self EXCEPT !.pos = None],
                   status |-> "EXIT", side |-> "", pnl |-> Some(pnl)]
         ELSE [self |-> self, status |-> "IN_POSITION", side |-> Get(self.pos).side,
               pnl |-> None]

\* on_tick that rewrites the entry of the position it keeps holding
on_tick_refresh_entry(self, z, spread) ==
    IF IsNone(self.pos)
    THEN IF ZGe(z, self.enter_z)
         THEN [self |-> [self EXCEPT !.pos = Some(Position("SHORT_SPREAD", z, spread))],
               status |-> "ENTER", side |-> "SHORT_SPREAD", pnl |-> None]
         ELSE IF ZLe(z, RatNeg(self.enter_z))
         THEN [self |-> [self EXCEPT !.pos = Some(Position("LONG_SPREAD", z, spread))],
               status |-> "ENTER", side |-> "LONG_SPREAD", pnl |-> None]
         ELSE [self |-> self, status |-> "HOLD", side |-> "", pnl |-> None]
    ELSE IF ZLe(ZAbs(z), self.exit_band)
         THEN LET p == Get(self.pos)
                  pnl == IF p.side = "LONG_SPREAD"
                         THEN spread - p.entry_spread
                         ELSE p.entry_spread - spread
              IN  [self |-> [self EXCEPT !.pos = None],
                   status |-> "EXIT", side |-> p.side, pnl |-> Some(pnl)]
         ELSE [self |-> [self EXCEPT !.pos = Some(Position(Get(self.pos).side, z, spread))],
               status |-> "IN_POSITION", side |-> Get(self.pos).side, pnl |-> None]

\* on_tick with the P&L of a SHORT_SPREAD computed like that of a LONG_SPREAD
on_tick_pnl_sign(self, z, spread) ==
    IF IsNone(self.pos)
    THEN IF ZGe(z, self.enter_z)
         THEN [self |-> [self EXCEPT !.pos = Some(Position("SHORT_SPREAD", z, spread))],
               status |-> "ENTER", side |-> "SHORT_SPREAD", pnl |-> None]
         ELSE IF ZLe(z, RatNeg(self.enter_z))
         THEN [self |-> [self EXCEPT !.pos = Some(Position("LONG_SPREAD", z, spread))],
               status |-> "ENTER", side |-> "LONG_SPREAD", pnl |-> None]
         ELSE [self |-> self, status |-> "HOLD", side |-> "", pnl |-> None]
    ELSE IF ZLe(ZAbs(z), self.exit_band)
         THEN LET p == Get(self.pos)
              IN  [self |-> [self EXCEPT !.pos = None],
                   status |-> "EXIT", side |-> p.side,
                   pnl |-> Some(spread - p.entry_spread)]
         ELSE [self |-> self, status |-> "IN_POSITION", side |-> Get(self.pos).side,
               pnl |-> None]

\* on_tick with the Flat branch entered whatever the position is
on_tick_reenter(self, z, spread) ==
    IF ZGe(z, self.enter_z)
    THEN [self |-> [self EXCEPT !.pos = Some(Position("SHORT_SPREAD", z, spread))],
          status |-> "ENTER", side |-> "SHORT_SPREAD", pnl |-> None]
    ELSE IF ZLe(z, RatNeg(self.enter_z))
    THEN [self |-> [self EXCEPT !.pos = Some(Position("LONG_SPREAD", z, spread))],
          status |-> "ENTER", side |-> "LONG_SPREAD", pnl |-> None]
    ELSE IF IsNone(self.pos)
    THEN [self |-> self, status |-> "HOLD", side |-> "", pnl |-> None]
    ELSE [self |-> self, status |-> "IN_POSITION", side |-> Get(self.pos).side,
          pnl |-> None]

\* SignalEngine.on_tick(z, spread): the engine after the call and the
\* returned (status, side, pnl_spread_str); pnl is None for the empty string.
on_tick(self, z, spread) ==
    IF IsNone(self.pos)
    THEN IF ZGe(z, self.enter_z)
         THEN [self |-> [self EXCEPT !.pos = Some(Position("SHORT_SPREAD", z, spread))],
               status |-> "ENTER", side |-> "SHORT_SPREAD", pnl |-> None]
         ELSE IF ZLe(z, RatNeg(self.enter_z))
         THEN [self |-> [self EXCEPT !.pos = Some(Position("LONG_SPREAD", z, spread))],
               status |-> "ENTER", side |-> "LONG_SPREAD", pnl |-> None]
         ELSE [self |-> self, status |-> "HOLD", side |-> "", pnl |-> None]
    ELSE IF ZLe(ZAbs(z), self.exit_band)
         THEN LET p == Get(self.pos)
                  pnl == IF p.side = "LONG_SPREAD"
                         THEN spread - p.entry_spread
                         ELSE p.entry_spread - spread
              IN  [self |-> [self EXCEPT !.pos = None],
                   status |-> "EXIT", side |-> p.side, pnl |-> Some(pnl)]
         ELSE [self |-> self, status |-> "IN_POSITION", side |-> Get(self.pos).side,
               pnl |-> None]

----------------------------------------------------------------------------
(* RollingZScore *)

RECURSIVE SumSeq(_)
SumSeq(s) == IF s = <<>> THEN 0 ELSE Head(s) + SumSeq(Tail(s))

RECURSIVE SumSq(_)
SumSq(s) == IF s = <<>> THEN 0 ELSE Head(s) * Head(s) + SumSq(Tail(s))

Min(a, b) == IF a < b THEN a ELSE b

\* a deque that never evicts
DequeAppend_unbounded(s, x, maxlen) == Append(s, x)

\* deque(maxlen=window).append(x)
DequeAppend(s, x, maxlen) ==
    IF Len(s) >= maxlen THEN Append(Tail(s), x) ELSE Append(s, x)

RollingZScore(window, warmup) ==
    [window |-> window, warmup |-> warmup, values |-> <<>>,
     last_mean |-> None, last_std |-> None]

\* update that is still warming when the window holds min(warmup, window) values
update_warm_late(self, x) ==
    LET vals == DequeAppend(self.values, x, self.window)
        n    == Len(vals)
        s    == SumSeq(vals)
        q    == n * SumSq(vals) - s * s
    IN  IF n <= Min(self.warmup, self.window)
        THEN [self |-> [self EXCEPT !.values = vals, !.last_mean = None,
                                    !.last_std = None],
              z |-> None]
        ELSE [self |-> [self EXCEPT !.values = vals,
                                    !.last_mean = Some([s |-> s, n |-> n]),
                                    !.last_std = Some([q |-> q, n |-> n])],
              z |-> IF q = 0 THEN None ELSE Some(ZVal(n * x - s, q))]

\* update that treats a degenerate window like the warm-up: mean and std cleared
update_clear_on_flat(self, x) ==
    LET vals == DequeAppend(self.values, x, self.window)
        n    == Len(vals)
        s    == SumSeq(vals)
        q    == n * SumSq(vals) - s * s
    IN  IF n < Min(self.warmup, self.window) \/ q = 0
        THEN [self |-> [self EXCEPT !.values = vals, !.last_mean = None,
                                    !.last_std = None],
              z |-> None]
        ELSE [self |-> [self EXCEPT !.values = vals,
                                    !.last_mean = Some([s |-> s, n |-> n]),
                                    !.last_std = Some([q |-> q, n |-> n])],
              z |-> Some(ZVal(n * x - s, q))]

\* update that returns on a degenerate window before it stores mean and std
update_stats_late(self, x) ==
    LET vals == DequeAppend(self.values, x, self.window)
        n    == Len(vals)
        s    == SumSeq(vals)
        q    == n * SumSq(vals) - s * s
    IN  IF n < Min(self.warmup, self.window)
        THEN [self |-> [self EXCEPT !.values = vals, !.last_mean = None,
                                    !.last_std = None],
              z |-> None]
        ELSE IF q = 0
        THEN [self |-> [self EXCEPT !.values = vals], z |-> None]
        ELSE [self |-> [self EXCEPT !.values = vals,
                                    !.last_mean = Some([s |-> s, n |-> n]),
                                    !.last_std = Some([q |-> q, n |-> n])],
              z |-> Some(ZVal(n * x - s, q))]

\* RollingZScore.update(x): the estimator after the call and the returned
\* z (None when not ready).  With n values, s their sum and q = n*sum(v^2) - s^2
\* the mean is s/n, the population std is sqrt(q)/n and z is (n*x - s)/sqrt(q).
update(self, x) ==
    LET vals == DequeAppend(self.values, x, self.window)
        n    == Len(vals)
        s    == SumSeq(vals)
        q    == n * SumSq(vals) - s * s
    IN  IF n < Min(self.warmup, self.window)
        THEN [self |-> [self EXCEPT !.values = vals, !.last_mean = None,
                                    !.last_std = None],
              z |-> None]
        ELSE [self |-> [self EXCEPT !.values = vals,
                                    !.last_mean = Some([s |-> s, n |-> n]),
                                    !.last_std = Some([q |-> q, n |-> n])],
              z |-> IF q = 0 THEN None ELSE Some(ZVal(n * x - s, q))]

(* RollingZScore.update in binary64 arithmetic, for values in [2^26, 2^27).   *)
(* A double in that range has 26 fraction bits and is kept as [hi, lo], which *)
(* stands for hi + lo / 2^26 with 0 <= lo < 2^26.  A sum of up to three such  *)
(* values lies below 2^29 and has 26, 25 or 24 fraction bits left.            *)

FracUnits == 2^26

F64(hi, lo) == [hi |-> hi, lo |-> lo]

\* hi + lo / 2^26 (lo >= 0, carried into hi) rounded to the nearest double,
\* ties to even
F64Round(hi, lo) ==
    LET h    == hi + lo \div FracUnits
        l    == lo % FracUnits
        unit == IF h < 2^27 THEN 1 ELSE IF h < 2^28 THEN 2 ELSE 4
        r    == l % unit
        down == l - r
        up   == 2 * r > unit \/ (2 * r = unit /\ (down \div unit) % 2 = 1)
        l2   == IF up THEN down + unit ELSE down
    IN  F64(h + l2 \div FracUnits, l2 % FracUnits)

\* a + b in binary64
F64Add(a, b) == F64Round(a.hi + b.hi, a.lo + b.lo)

\* a / n in binary64, for an integer n in 1..3 and a quotient in [2^26, 2^27)
F64DivInt(a, n) ==
    LET qh  == a.hi \div n
        t   == (a.hi % n) * FracUnits + a.lo
        ql  == t \div n
        rem == t % n
        up  == 2 * rem > n \/ (2 * rem = n /\ ql % 2 = 1)
        q2  == IF up THEN ql + 1 ELSE ql
    IN  F64(qh + q2 \div FracUnits, q2 % FracUnits)

\* sum(values): the running total acc + v1 + v2 + ..., rounded after each step
RECURSIVE F64SumFrom(_, _)
F64SumFrom(acc, vals) ==
    IF vals = <<>> THEN acc ELSE F64SumFrom(F64Add(acc, Head(vals)), Tail(vals))

\* sum(values) of a non-empty window (0 + v1 is v1)
F64Sum(vals) == F64SumFrom(Head(vals), Tail(vals))

\* a < b
F64Less(a, b) == a.hi < b.hi \/ (a.hi = b.hi /\ a.lo < b.lo)

\* RollingZScore.update(x) in binary64 for a window of at most 3 values in
\* [2^26, 2^27).  v - mean is then an exact multiple of 2^-26, so var is 0 when
\* every value equals the computed mean and at least 2^-52 / 3 otherwise, which
\* makes std at least 8.6e-9 > EPS_STD: "std < EPS_STD" is "every value equals
\* the mean".  last_std records only whether std is zero, and the returned z
\* is reduced to its sign.
update_f64(self, x) ==
    LET vals == DequeAppend(self.values, x, self.window)
        n    == Len(vals)
    IN  IF n < Min(self.warmup, self.window)
        THEN [self |-> [self EXCEPT !.values = vals, !.last_mean = None,
                                    !.last_std = None],
              z |-> None]
        ELSE LET mean == F64DivInt(F64Sum(vals), n)
                 flat == \A k \in 1..n : vals[k] = mean
             IN  [self |-> [self EXCEPT !.values = vals,
                                        !.last_mean = Some(mean),
                                        !.last_std = Some(IF flat THEN "zero"
                                                          ELSE "positive")],
                  z |-> IF flat THEN None
                        ELSE Some(IF F64Less(mean, x) THEN 1
                                  ELSE IF F64Less(x, mean) THEN -1 ELSE 0)]

----------------------------------------------------------------------------
(* get_tick_state *)

Symbols == {"X", "Y", "W"}

Tick(last, bid, ask, msc) == [last |-> last, bid |-> bid, ask |-> ask, time_msc |-> msc]

\* the price get_tick_state derives from a tick (None when no field is set)
TickPrice(tick) ==
    IF tick.last > 0 THEN Some(tick.last)
    ELSE IF tick.bid > 0 /\ tick.ask > 0 THEN Some((tick.bid + tick.ask) \div 2)
    ELSE IF tick.bid # 0 THEN Some(tick.bid)
    ELSE IF tick.ask # 0 THEN Some(tick.ask)
    ELSE None

\* get_tick_state that restarts the staleness clock on every poll
get_tick_state_touch(symbol, stale_seconds, otick, tnow, msc, seen) ==
    IF IsNone(otick)
    THEN [price |-> None, age |-> None, same_tick |-> FALSE, status |-> "NO_TICK",
          msc |-> msc, seen |-> seen]
    ELSE LET tick     == Get(otick)
             m        == tick.time_msc
             prev_msc == msc[symbol]
             same     == IF ~IsNone(prev_msc) /\ m > 0 THEN Get(prev_msc) = m ELSE FALSE
             msc2     == [msc EXCEPT ![symbol] = Some(m)]
             seen2    == [seen EXCEPT ![symbol] = Some(tnow)]
             age      == tnow - Get(seen2[symbol])
         IN  [price |-> TickPrice(tick), age |-> Some(age), same_tick |-> same,
              status |-> IF age > stale_seconds THEN "STALE" ELSE "OK",
              msc |-> msc2, seen |-> seen2]

\* get_tick_state(symbol, stale_seconds) when mt5.symbol_info_tick returns
\* otick at wall-clock time tnow (time.time()); msc and seen are _LAST_TICK_MSC and
\* _LAST_SEEN_LOCAL.  Returns (price, age, same_tick, status) and the caches.
get_tick_state(symbol, stale_seconds, otick, tnow, msc, seen) ==
    IF IsNone(otick)
    THEN [price |-> None, age |-> None, same_tick |-> FALSE, status |-> "NO_TICK",
          msc |-> msc, seen |-> seen]
    ELSE LET tick     == Get(otick)
             m        == tick.time_msc
             prev_msc == msc[symbol]
             same     == IF ~IsNone(prev_msc) /\ m > 0 THEN Get(prev_msc) = m ELSE FALSE
             changed  == IsNone(prev_msc) \/ m # Get(prev_msc)
             msc2     == IF changed THEN [msc EXCEPT ![symbol] = Some(m)] ELSE msc
             seen2    == IF changed THEN [seen EXCEPT ![symbol] = Some(tnow)] ELSE seen
             last_seen == IF IsNone(seen2[symbol]) THEN tnow ELSE Get(seen2[symbol])
             age      == tnow - last_seen
         IN  [price |-> TickPrice(tick), age |-> Some(age), same_tick |-> same,
              status |-> IF age > stale_seconds THEN "STALE" ELSE "OK",
              msc |-> msc2, seen |-> seen2]

----------------------------------------------------------------------------
(* PairRuntime *)

PairCfg(a, b, alpha, beta) == [a |-> a, b |-> b, alpha |-> alpha, beta |-> beta]

PairRuntime(cfg, z_window, warmup, enter_z, exit_band, stale_seconds, mode, sigma_min) ==
    [cfg |-> cfg,
     z |-> RollingZScore(z_window, warmup),
     engine |-> SignalEngine(enter_z, exit_band),
     stale_seconds |-> stale_seconds,
     confirm_mode |-> mode,
     sigma_min |-> sigma_min,
     confirm_count |-> 0,
     prev_abs_z |-> None,
     was_idle |-> FALSE,
     last_spread |-> None,
     wake_line |-> FALSE,
     last_state |-> None]

\* _reset_entry_state that forgets to clear confirm_count
reset_entry_state_prev_only(self) == [self EXCEPT !.prev_abs_z = None]

\* _reset_entry_state that forgets to clear prev_abs_z
reset_entry_state_count_only(self) == [self EXCEPT !.confirm_count = 0]

\* PairRuntime._reset_entry_state
reset_entry_state(self) == [self EXCEPT !.confirm_count = 0, !.prev_abs_z = None]

\* std < sigma_min, for std = sqrt(q)/n (0.0 when last_std is None)
StdBelow(last_std, sigma_min) ==
    IF IsNone(last_std)
    THEN sigma_min.num > 0
    ELSE LET sd == Get(last_std)
         IN  sigma_min.den * sigma_min.den * sd.q
                < sigma_min.num * sigma_min.num * sd.n * sd.n

\* _entry_block_reason letting the first qualifying evaluation through
entry_block_reason_one(self, z) ==
    LET abs_z == ZAbs(z)
    IN  IF self.sigma_min.num > 0 /\ StdBelow(self.z.last_std, self.sigma_min)
        THEN [self |-> self, block |-> TRUE]
        ELSE IF self.confirm_mode = "none"
        THEN [self |-> self, block |-> FALSE]
        ELSE IF self.confirm_mode = "consecutive"
        THEN LET cnt == IF ZGe(abs_z, self.engine.enter_z)
                        THEN self.confirm_count + 1 ELSE 0
             IN  [self |-> [self EXCEPT !.confirm_count = cnt], block |-> ~(cnt >= 1)]
        ELSE IF self.confirm_mode = "increasing"
        THEN LET prev == self.prev_abs_z
                 allowed == /\ ~IsNone(prev)
                            /\ ZGe(abs_z, self.engine.enter_z)
                            /\ ZGt(abs_z, Get(prev))
             IN  [self |-> [self EXCEPT !.prev_abs_z = Some(abs_z)], block |-> ~allowed]
        ELSE [self |-> self, block |-> FALSE]

\* _entry_block_reason that lets an evaluation with no previous |z| through
entry_block_reason_first_free(self, z) ==
    LET abs_z == ZAbs(z)
    IN  IF self.sigma_min.num > 0 /\ StdBelow(self.z.last_std, self.sigma_min)
        THEN [self |-> self, block |-> TRUE]
        ELSE IF self.confirm_mode = "none"
        THEN [self |-> self, block |-> FALSE]
        ELSE IF self.confirm_mode = "consecutive"
        THEN LET cnt == IF ZGe(abs_z, self.engine.enter_z)
                        THEN self.confirm_count + 1 ELSE 0
             IN  [self |-> [self EXCEPT !.confirm_count = cnt], block |-> ~(cnt >= 2)]
        ELSE IF self.confirm_mode = "increasing"
        THEN LET prev == self.prev_abs_z
                 allowed == /\ ZGe(abs_z, self.engine.enter_z)
                            /\ (IsNone(prev) \/ ZGt(abs_z, Get(prev)))
             IN  [self |-> [self EXCEPT !.prev_abs_z = Some(abs_z)], block |-> ~allowed]
        ELSE [self |-> self, block |-> FALSE]

\* _entry_block_reason without the sigma floor
entry_block_reason_no_sigma(self, z) ==
    LET abs_z == ZAbs(z)
    IN  IF self.confirm_mode = "none"
        THEN [self |-> self, block |-> FALSE]
        ELSE IF self.confirm_mode = "consecutive"
        THEN LET cnt == IF ZGe(abs_z, self.engine.enter_z)
                        THEN self.confirm_count + 1 ELSE 0
             IN  [self |-> [self EXCEPT !.confirm_count = cnt], block |-> ~(cnt >= 2)]
        ELSE IF self.confirm_mode = "increasing"
        THEN LET prev == self.prev_abs_z
                 allowed == /\ ~IsNone(prev)
                            /\ ZGe(abs_z, self.engine.enter_z)
                            /\ ZGt(abs_z, Get(prev))
             IN  [self |-> [self EXCEPT !.prev_abs_z = Some(abs_z)], block |-> ~allowed]
        ELSE [self |-> self, block |-> FALSE]

\* PairRuntime._entry_block_reason(z): the runtime after the call and whether
\* a blocking reason was returned.
entry_block_reason(self, z) ==
    LET abs_z == ZAbs(z)
    IN  IF self.sigma_min.num > 0 /\ StdBelow(self.z.last_std, self.sigma_min)
        THEN [self |-> self, block |-> TRUE]
        ELSE IF self.confirm_mode = "none"
        THEN [self |-> self, block |-> FALSE]
        ELSE IF self.confirm_mode = "consecutive"
        THEN LET cnt == IF ZGe(abs_z, self.engine.enter_z)
                        THEN self.confirm_count + 1 ELSE 0
             IN  [self |-> [self EXCEPT !.confirm_count = cnt], block |-> ~(cnt >= 2)]
        ELSE IF self.confirm_mode = "increasing"
        THEN LET prev == self.prev_abs_z
                 allowed == /\ ~IsNone(prev)
                            /\ ZGe(abs_z, self.engine.enter_z)
                            /\ ZGt(abs_z, Get(prev))
             IN  [self |-> [self EXCEPT !.prev_abs_z = Some(abs_z)], block |-> ~allowed]
        ELSE [self |-> self, block |-> FALSE]

\* math.log on the price grid, in units of ln 2 (defined for powers of two)
Log(p) == CHOOSE k \in 0..10 : 2^k = p

\* the per-cycle snapshot dict built by step (display strings, timestamps and
\* the static configuration copies are left out)
Snapshot(status, phase, signal, side, same_a, same_b, pa, pb, spread, z, wake) ==
    [status |-> status, phase |-> phase, signal |-> signal, side |-> side,
     sameA |-> same_a, sameB |-> same_b, pa |-> pa, pb |-> pb,
     spread |-> spread, z |-> z, wake |-> wake]

\* the snapshot with the "last_update_ts" that step takes from now_ts() before
\* anything else
Stamped(snap, ts) ==
    [status |-> snap.status, phase |-> snap.phase, signal |-> snap.signal,
     side |-> snap.side, sameA |-> snap.sameA, sameB |-> snap.sameB,
     pa |-> snap.pa, pb |-> snap.pb, spread |-> snap.spread, z |-> snap.z,
     wake |-> snap.wake, last_update_ts |-> ts]

\* the 2-tuple (pair_name, msg) returned on every early exit of step
ShortRes == [len |-> 2, status |-> "", side |-> "", z |-> None, spread |-> None,
             pnl |-> None]

\* step evaluating the entry gate in every cycle, Flat or not
step_evaluate_gate_always(self, spread, snap0) ==
    Only({
      IF IsNone(u.z)
      THEN [self |-> [self EXCEPT !.z = u.self,
                         !.last_state = Some([snap0 EXCEPT !.status = "active",
                                                 !.phase = "warming",
                                                 !.signal = "WARMING"])],
            res |-> ShortRes]
      ELSE
      Only({
        IF g.block
        THEN [self |-> [g.self EXCEPT !.last_state =
                           Some([snap0 EXCEPT !.z = u.z, !.status = "active",
                                              !.signal = "HOLD"])],
              res |-> ShortRes]
        ELSE
        Only({
          [self |-> [(IF t.status \in {"ENTER", "EXIT"}
                      THEN reset_entry_state(g.self) ELSE g.self)
                     EXCEPT !.engine = t.self,
                            !.last_state =
                               Some([snap0 EXCEPT !.z = u.z, !.status = "active",
                                                  !.signal = t.status,
                                                  !.side = t.side])],
           res |-> [len |-> 7, status |-> t.status, side |-> t.side, z |-> u.z,
                    spread |-> Some(spread), pnl |-> t.pnl]]
          : t \in {on_tick(g.self.engine, Get(u.z), spread)} })
        : g \in {entry_block_reason([self EXCEPT !.z = u.self], Get(u.z))} })
      : u \in {update(self.z, spread)} })

\* step, lines 452-503: feed the estimator, evaluate the gate while Flat, drive
\* the engine.  self is the runtime after the idle/wake bookkeeping; snap0 the
\* snapshot filled so far.
step_evaluate(self, spread, snap0) ==
    Only({
      IF IsNone(u.z)
      THEN [self |-> [self EXCEPT !.z = u.self,
                         !.last_state = Some([snap0 EXCEPT !.status = "active",
                                                 !.phase = "warming",
                                                 !.signal = "WARMING"])],
            res |-> ShortRes]
      ELSE
      Only({
        IF g.block
        THEN [self |-> [g.self EXCEPT !.last_state =
                           Some([snap0 EXCEPT !.z = u.z, !.status = "active",
                                              !.signal = "HOLD"])],
              res |-> ShortRes]
        ELSE
        Only({
          [self |-> [(IF t.status \in {"ENTER", "EXIT"}
                      THEN reset_entry_state(g.self) ELSE g.self)
                     EXCEPT !.engine = t.self,
                            !.last_state =
                               Some([snap0 EXCEPT !.z = u.z, !.status = "active",
                                                  !.signal = t.status,
                                                  !.side = t.side])],
           res |-> [len |-> 7, status |-> t.status, side |-> t.side, z |-> u.z,
                    spread |-> Some(spread), pnl |-> t.pnl]]
          : t \in {on_tick(g.self.engine, Get(u.z), spread)} })
        : g \in {IF ~IsNone(self.engine.pos)
                 THEN [self |-> [self EXCEPT !.z = u.self], block |-> FALSE]
                 ELSE entry_block_reason([self EXCEPT !.z = u.self], Get(u.z))} })
      : u \in {update(self.z, spread)} })

\* step feeding the estimator and the engine before the stale and idle exits
step_classify_feed_first(self, ga, gb) ==
    LET pair_stale == ga.status = "STALE" \/ gb.status = "STALE"
        is_idle == ga.same_tick /\ gb.same_tick
    IN
    Only({
      LET woke_up == self.was_idle /\ ~is_idle
          spread_changed == IsNone(self.last_spread) \/ spread # Get(self.last_spread)
          wake == ~pair_stale /\ woke_up /\ spread_changed
          self1 == [self EXCEPT !.wake_line = wake, !.was_idle = is_idle,
                                !.last_spread = Some(spread)]
          snap0 == Snapshot("", "ready", "", "", ga.same_tick, gb.same_tick,
                            ga.price, gb.price, Some(spread), None, wake)
          fed == step_evaluate(self1, spread, snap0)
      IN  IF pair_stale
          THEN [self |-> [fed.self EXCEPT !.last_state =
                             Some([snap0 EXCEPT !.status = "stale", !.signal = "STALE"])],
                res |-> ShortRes]
          ELSE IF is_idle
          THEN [self |-> [fed.self EXCEPT !.last_state =
                             Some([snap0 EXCEPT !.status = "idle", !.signal = "QUIET"])],
                res |-> ShortRes]
          ELSE fed
      : spread \in {Log(Get(ga.price))
                     - (self.cfg.alpha + self.cfg.beta * Log(Get(gb.price)))} })

\* step that never raises the wake flag
step_classify_no_wake(self, ga, gb) ==
    LET pair_stale == ga.status = "STALE" \/ gb.status = "STALE"
        is_idle == ga.same_tick /\ gb.same_tick
    IN
    Only({
      LET self1 == [self EXCEPT !.wake_line = FALSE, !.was_idle = is_idle,
                                !.last_spread = Some(spread)]
          snap0 == Snapshot("", "ready", "", "", ga.same_tick, gb.same_tick,
                            ga.price, gb.price, Some(spread), None, FALSE)
      IN  IF pair_stale
          THEN [self |-> [self1 EXCEPT !.last_state =
                             Some([snap0 EXCEPT !.status = "stale", !.signal = "STALE"])],
                res |-> ShortRes]
          ELSE IF is_idle
          THEN [self |-> [self1 EXCEPT !.last_state =
                             Some([snap0 EXCEPT !.status = "idle", !.signal = "QUIET"])],
                res |-> ShortRes]
          ELSE step_evaluate(self1, spread, snap0)
      : spread \in {Log(Get(ga.price))
                     - (self.cfg.alpha + self.cfg.beta * Log(Get(gb.price)))} })

\* step, lines 399-450: spread, stale / idle classification and wake detection,
\* for two legs that both have a positive price.
step_classify(self, ga, gb) ==
    LET pair_stale == ga.status = "STALE" \/ gb.status = "STALE"
        is_idle == ga.same_tick /\ gb.same_tick
    IN
    Only({
      LET woke_up == self.was_idle /\ ~is_idle
          spread_changed == IsNone(self.last_spread) \/ spread # Get(self.last_spread)
          wake == ~pair_stale /\ woke_up /\ spread_changed
          self1 == [self EXCEPT !.wake_line = wake, !.was_idle = is_idle,
                                !.last_spread = Some(spread)]
          snap0 == Snapshot("", "ready", "", "", ga.same_tick, gb.same_tick,
                            ga.price, gb.price, Some(spread), None, wake)
      IN  IF pair_stale
          THEN [self |-> [self1 EXCEPT !.last_state =
                             Some([snap0 EXCEPT !.status = "stale", !.signal = "STALE"])],
                res |-> ShortRes]
          ELSE IF is_idle
          THEN [self |-> [self1 EXCEPT !.last_state =
                             Some([snap0 EXCEPT !.status = "idle", !.signal = "QUIET"])],
                res |-> ShortRes]
          ELSE step_evaluate(self1, spread, snap0)
      : spread \in {Log(Get(ga.price))
                     - (self.cfg.alpha + self.cfg.beta * Log(Get(gb.price)))} })

\* PairRuntime.step() when symbol_info_tick returns tick_a and then tick_b at
\* time tnow, or raises in the call named by raise_at ("a", "b" or "").
\* Returns the runtime and the tick caches after the call, the returned tuple
\* res, and raised = TRUE when an exception leaves step.
step(self, tick_a, tick_b, raise_at, tnow, msc, seen) ==
    Only({
      IF r.raised THEN r
      ELSE [r EXCEPT !.self.last_state = Some(Stamped(Get(@), tnow))]
    : r \in {
      Only({
      Only({
        LET self0 == [self EXCEPT !.wake_line = FALSE]
            err == Some(Snapshot("mt5_err", "ready", "MT5_ERR", "", FALSE, FALSE,
                                 None, None, None, None, FALSE))
        IN
        IF raise_at = "a"
        THEN [self |-> [self0 EXCEPT !.last_state = err],
              msc |-> msc, seen |-> seen, res |-> ShortRes, raised |-> FALSE]
        ELSE IF raise_at = "b"
        THEN [self |-> [self0 EXCEPT !.last_state = err],
              msc |-> ga.msc, seen |-> ga.seen, res |-> ShortRes, raised |-> FALSE]
        ELSE IF IsNone(ga.price) \/ IsNone(gb.price)
        THEN [self |-> [self0 EXCEPT !.last_state =
                           Some(Snapshot("no_tick", "ready", "NO_TICK", "",
                                         ga.same_tick, gb.same_tick, ga.price, gb.price,
                                         None, None, FALSE))],
              msc |-> gb.msc, seen |-> gb.seen, res |-> ShortRes, raised |-> FALSE]
        ELSE IF Get(ga.price) <= 0 \/ Get(gb.price) <= 0
        THEN \* math.log raises ValueError, which nothing in step catches
             [self |-> self0, msc |-> gb.msc, seen |-> gb.seen, res |-> ShortRes,
              raised |-> TRUE]
        ELSE Only({ [self |-> c.self, msc |-> gb.msc, seen |-> gb.seen,
                     res |-> c.res, raised |-> FALSE]
                    : c \in {step_classify(self0, ga, gb)} })
        : gb \in {get_tick_state(self.cfg.b, self.stale_seconds, tick_b, tnow,
                                 ga.msc, ga.seen)} })
      : ga \in {get_tick_state(self.cfg.a, self.stale_seconds, tick_a, tnow,
                               msc, seen)} })
    } })

----------------------------------------------------------------------------
(* mt5_bridge/api.py: _resolve_position_id *)

\* an attribute as getattr finds it: missing or None, an integer, or a value
\* int() rejects
NoAttr == [kind |-> "none", val |-> 0]

IntAttr(v) == [kind |-> "int", val |-> v]

JunkAttr == [kind |-> "junk", val |-> 0]

\* _cast_int(value)
cast_int(value) == IF value.kind = "int" THEN Some(value.val) ELSE None

\* the order result of mt5.order_send, and a deal of the history
OrderResult(position, deal) == [position |-> position, deal |-> deal]

HistoryDeal(deal, position_id) == [deal |-> deal, position_id |-> position_id]

\* what mt5.history_deals_get does when called: raises, or returns None or a
\* tuple of deals
HistoryRaises == [raises |-> TRUE, deals |-> None]

HistoryReturns(deals) == [raises |-> FALSE, deals |-> deals]

\* the position_id of the first deal of deals whose deal id is deal_id
RECURSIVE match_deal(_, _)
match_deal(deals, deal_id) ==
    IF deals = <<>> THEN None
    ELSE IF cast_int(Head(deals).deal) = Some(deal_id)
    THEN cast_int(Head(deals).position_id)
    ELSE match_deal(Tail(deals), deal_id)

\* _resolve_position_id taking the position_id of the first deal of the history
resolve_position_id_first_deal(result, history) ==
    LET position == cast_int(result.position)
        deal_id == cast_int(result.deal)
    IN  IF ~IsNone(position) /\ Get(position) # 0
        THEN [value |-> position, queried |-> FALSE]
        ELSE IF IsNone(deal_id) \/ Get(deal_id) = 0
        THEN [value |-> None, queried |-> FALSE]
        ELSE IF history.raises
        THEN [value |-> None, queried |-> TRUE]
        ELSE IF IsNone(history.deals) \/ Get(history.deals) = <<>>
        THEN [value |-> None, queried |-> TRUE]
        ELSE [value |-> cast_int(Head(Get(history.deals)).position_id), queried |-> TRUE]

\* _resolve_position_id(result): the value returned and whether
\* mt5.history_deals_get was called, history being what that call does
resolve_position_id(result, history) ==
    LET position == cast_int(result.position)
        deal_id == cast_int(result.deal)
    IN  IF ~IsNone(position) /\ Get(position) # 0
        THEN [value |-> position, queried |-> FALSE]
        ELSE IF IsNone(deal_id) \/ Get(deal_id) = 0
        THEN [value |-> None, queried |-> FALSE]
        ELSE IF history.raises
        THEN [value |-> None, queried |-> TRUE]
        ELSE IF IsNone(history.deals) \/ Get(history.deals) = <<>>
        THEN [value |-> None, queried |-> TRUE]
        ELSE [value |-> match_deal(Get(history.deals), Get(deal_id)), queried |-> TRUE]

----------------------------------------------------------------------------
(* Calibration: pair_calibration.py and PairReplay._calibrate_up_to *)

\* the smallest aligned sample the calibration functions accept
MIN_SAMPLES == 50

MIN_CALIBRATION_BARS == 50

\* numpy's nan: the correlation 0 / sqrt(0)
NaN == ZVal(0, 0)

isnan(corr) == corr.q = 0

\* corr < t in binary64: False when corr is nan
CorrLess(corr, t) == ~isnan(corr) /\ ~ZGe(corr, t)

RECURSIVE SumProd(_, _)
SumProd(y, x) == IF y = <<>> THEN 0 ELSE Head(y) * Head(x) + SumProd(Tail(y), Tail(x))

\* seq[-n:] for 0 < n <= len(seq)
LastN(seq, n) == SubSeq(seq, Len(seq) - n + 1, Len(seq))

\* [math.log(v) for v in seq], in units of ln 2
Logs(seq) == [k \in 1..Len(seq) |-> Log(seq[k])]

CalibResult(alpha, beta, corr, n) == [alpha |-> alpha, beta |-> beta, corr |-> corr, n |-> n]

\* what a call gives: an exception, or a value
Raised == [raised |-> TRUE, result |-> None]

Returns(v) == [raised |-> FALSE, result |-> Some(v)]

\* ols_alpha_beta(y, x).  With the sums scaled by n, cov = c / n^2 and the
\* variances are vx / n^2 and vy / n^2.  beta is the fraction c / vx (1.0 when
\* var is 0), alpha = y_mean - beta * x_mean over n times beta's denominator,
\* and corr, kept exact, is c / sqrt(vx * vy): np.corrcoef gives nan when
\* either variance is 0.
ols_alpha_beta(y, x) ==
    LET n == Len(y)
        sx == SumSeq(x)
        sy == SumSeq(y)
        c == n * SumProd(y, x) - sx * sy
        vx == n * SumSq(x) - sx * sx
        vy == n * SumSq(y) - sy * sy
        beta == IF vx > 0 THEN Rat(c, vx) ELSE Rat(1, 1)
        alpha == Rat(sy * beta.den - beta.num * sx, n * beta.den)
        corr == IF n > 2
                THEN IF vx = 0 \/ vy = 0 THEN NaN ELSE ZVal(c, vx * vy)
                ELSE ZVal(0, 1)
    IN  CalibResult(alpha, beta, corr, n)

\* hedge.py and scanner.py: _ols_with_intercept(y, x), the pair (alpha, beta);
\* (0.0, 0.0) when var(x) is 0
ols_with_intercept(y, x) ==
    LET n == Len(x)
        sx == SumSeq(x)
        sy == SumSeq(y)
        c == n * SumProd(y, x) - sx * sy
        vx == n * SumSq(x) - sx * sx
    IN  IF vx = 0
        THEN [alpha |-> Rat(0, 1), beta |-> Rat(0, 1)]
        ELSE [alpha |-> Rat(sy * vx - c * sx, n * vx), beta |-> Rat(c, vx)]

\* calibrate_pair_from_series accepting a sample one short of the minimum
calibrate_pair_from_series_short(ca, cb) ==
    LET n == Min(Len(ca), Len(cb))
    IN  IF n < MIN_SAMPLES - 1 THEN Raised
        ELSE IF \E k \in 1..n : LastN(ca, n)[k] <= 0 \/ LastN(cb, n)[k] <= 0 THEN Raised
        ELSE Returns(ols_alpha_beta(Logs(LastN(ca, n)), Logs(LastN(cb, n))))

\* calibrate_pair_from_series(ca, cb)
calibrate_pair_from_series(ca, cb) ==
    LET n == Min(Len(ca), Len(cb))
    IN  IF n < MIN_SAMPLES THEN Raised
        ELSE IF \E k \in 1..n : LastN(ca, n)[k] <= 0 \/ LastN(cb, n)[k] <= 0 THEN Raised
        ELSE Returns(ols_alpha_beta(Logs(LastN(ca, n)), Logs(LastN(cb, n))))

\* calibrate_pair_from_mt5 when get_close_series_d1 gives the closes sa and sb
\* (None: it raises); math.log raises for a close that is not positive
calibrate_pair_from_mt5(sa, sb) ==
    IF IsNone(sa) \/ IsNone(sb) THEN Raised
    ELSE LET ca == Get(sa)
             cb == Get(sb)
             n == Min(Len(ca), Len(cb))
         IN  IF n < MIN_SAMPLES THEN Raised
             ELSE IF \E k \in 1..n : LastN(ca, n)[k] <= 0 \/ LastN(cb, n)[k] <= 0
             THEN Raised
             ELSE Returns(ols_alpha_beta(Logs(LastN(ca, n)), Logs(LastN(cb, n))))

\* PairReplay._calibrate_up_to(count) on the feed's bars
calibrate_up_to(bars, count) ==
    IF count < MIN_CALIBRATION_BARS THEN Raised
    ELSE LET upto == Min(count, Len(bars))
         IN  calibrate_pair_from_series([k \in 1..upto |-> bars[k].price_a],
                                        [k \in 1..upto |-> bars[k].price_b])

----------------------------------------------------------------------------
(* replay_d1.py: PairReplay *)

D1Bar(pa, pb) == [price_a |-> pa, price_b |-> pb]

TradeState(entry_dt, entry_spread, entry_z, side) ==
    [entry_dt |-> entry_dt, entry_spread |-> entry_spread, entry_z |-> entry_z,
     side |-> side]

\* PairReplay.__init__ once the feed has loaded bars
PairReplay(bars, z_window, warmup, enter_z, exit_band, recalibrate, min_corr) ==
    [bars |-> bars, recalibrate |-> recalibrate, min_corr |-> min_corr,
     z_score |-> RollingZScore(z_window, warmup),
     signal |-> SignalEngine(enter_z, exit_band),
     alpha |-> None, beta |-> None, corr |-> None, trade |-> None]

\* initialize(): calibrates on all the bars of the feed
initialize(self) ==
    LET r == calibrate_up_to(self.bars, Len(self.bars))
    IN  IF r.raised THEN [self |-> self, ok |-> FALSE]
        ELSE IF CorrLess(Get(r.result).corr, self.min_corr)
        THEN [self |-> self, ok |-> FALSE]
        ELSE [self |-> [self EXCEPT !.alpha = Some(Get(r.result).alpha),
                                    !.beta = Some(Get(r.result).beta),
                                    !.corr = Some(Get(r.result).corr)],
              ok |-> TRUE]

\* maybe_recalibrate storing alpha and beta before it looks at the correlation
maybe_recalibrate_assign_first(self, upto) ==
    IF ~self.recalibrate THEN [self |-> self, ok |-> TRUE]
    ELSE LET r == calibrate_up_to(self.bars, upto)
         IN  IF r.raised THEN [self |-> self, ok |-> FALSE]
             ELSE IF CorrLess(Get(r.result).corr, self.min_corr)
             THEN [self |-> [self EXCEPT !.alpha = Some(Get(r.result).alpha),
                                         !.beta = Some(Get(r.result).beta)],
                   ok |-> FALSE]
             ELSE [self |-> [self EXCEPT !.alpha = Some(Get(r.result).alpha),
                                         !.beta = Some(Get(r.result).beta),
                                         !.corr = Some(Get(r.result).corr)],
                   ok |-> TRUE]

\* maybe_recalibrate(upto)
maybe_recalibrate(self, upto) ==
    IF ~self.recalibrate THEN [self |-> self, ok |-> TRUE]
    ELSE LET r == calibrate_up_to(self.bars, upto)
         IN  IF r.raised THEN [self |-> self, ok |-> FALSE]
             ELSE IF CorrLess(Get(r.result).corr, self.min_corr)
             THEN [self |-> self, ok |-> FALSE]
             ELSE [self |-> [self EXCEPT !.alpha = Some(Get(r.result).alpha),
                                         !.beta = Some(Get(r.result).beta),
                                         !.corr = Some(Get(r.result).corr)],
                   ok |-> TRUE]

\* the replay keeps a spread to 1/64 of ln 2
SpreadUnit == 64

\* math.log(pa) - (alpha + beta * math.log(pb)) in units of ln 2 / SpreadUnit,
\* rounded down; alpha's denominator is a multiple of beta's
ReplaySpread(alpha, beta, pa, pb) ==
    (SpreadUnit * (Log(pa) * alpha.den - alpha.num
                   - beta.num * Log(pb) * (alpha.den \div beta.den))) \div alpha.den

\* `value or 0.0` for a fraction and for a correlation
RatOrZero(v) == IF v.num = 0 THEN Rat(0, 1) ELSE v

CorrOrZero(c) == IF ~isnan(c) /\ c.n = 0 THEN ZVal(0, 1) ELSE c

\* run()'s loop body computing every P&L as that of a LONG_SPREAD
run_bar_pnl_long_only(self, k) ==
    LET bar == self.bars[k]
        m == maybe_recalibrate(self, k)
        me == m.self
        spread == ReplaySpread(Get(me.alpha), Get(me.beta), bar.price_a, bar.price_b)
        u == update(me.z_score, spread)
        t == on_tick(me.signal, Get(u.z), spread)
    IN  IF bar.price_a <= 0 \/ bar.price_b <= 0 THEN [self |-> self, logged |-> None]
        ELSE IF self.recalibrate /\ ~m.ok THEN [self |-> me, logged |-> None]
        ELSE IF IsNone(me.alpha) \/ IsNone(me.beta) THEN [self |-> me, logged |-> None]
        ELSE IF IsNone(u.z)
        THEN [self |-> [me EXCEPT !.z_score = u.self], logged |-> None]
        ELSE IF t.status = "ENTER" /\ IsNone(me.trade)
        THEN [self |-> [me EXCEPT !.z_score = u.self, !.signal = t.self,
                                  !.trade = Some(TradeState(k, spread, Get(u.z), t.side))],
              logged |-> None]
        ELSE IF t.status = "EXIT" /\ ~IsNone(me.trade)
        THEN [self |-> [me EXCEPT !.z_score = u.self, !.signal = t.self, !.trade = None],
              logged |-> Some([exit_date |-> k, side |-> Get(me.trade).side,
                               pnl_spread |-> spread - Get(me.trade).entry_spread,
                               alpha |-> RatOrZero(Get(me.alpha)),
                               beta |-> RatOrZero(Get(me.beta)),
                               corr |-> CorrOrZero(Get(me.corr))])]
        ELSE [self |-> [me EXCEPT !.z_score = u.self, !.signal = t.self],
              logged |-> None]

\* the body of run()'s loop for bar k (bar.dt is k): the replay after it and
\* the trade it logged, if any
run_bar(self, k) ==
    LET bar == self.bars[k]
        m == maybe_recalibrate(self, k)
        me == m.self
        spread == ReplaySpread(Get(me.alpha), Get(me.beta), bar.price_a, bar.price_b)
        u == update(me.z_score, spread)
        t == on_tick(me.signal, Get(u.z), spread)
    IN  IF bar.price_a <= 0 \/ bar.price_b <= 0 THEN [self |-> self, logged |-> None]
        ELSE IF self.recalibrate /\ ~m.ok THEN [self |-> me, logged |-> None]
        ELSE IF IsNone(me.alpha) \/ IsNone(me.beta) THEN [self |-> me, logged |-> None]
        ELSE IF IsNone(u.z)
        THEN [self |-> [me EXCEPT !.z_score = u.self], logged |-> None]
        ELSE IF t.status = "ENTER" /\ IsNone(me.trade)
        THEN [self |-> [me EXCEPT !.z_score = u.self, !.signal = t.self,
                                  !.trade = Some(TradeState(k, spread, Get(u.z), t.side))],
              logged |-> None]
        ELSE IF t.status = "EXIT" /\ ~IsNone(me.trade)
        THEN [self |-> [me EXCEPT !.z_score = u.self, !.signal = t.self, !.trade = None],
              logged |-> Some([exit_date |-> k, side |-> Get(me.trade).side,
                               pnl_spread |-> IF Get(me.trade).side = "LONG_SPREAD"
                                              THEN spread - Get(me.trade).entry_spread
                                              ELSE Get(me.trade).entry_spread - spread,
                               alpha |-> RatOrZero(Get(me.alpha)),
                               beta |-> RatOrZero(Get(me.beta)),
                               corr |-> CorrOrZero(Get(me.corr))])]
        ELSE [self |-> [me EXCEPT !.z_score = u.self, !.signal = t.self],
              logged |-> None]

----------------------------------------------------------------------------
(* multi_monitor.py: load_top_pairs *)

\* the PairCfg dataclass with all its fields
LoadedPairCfg(a, b, alpha, beta, corr, half_life, score) ==
    [a |-> a, b |-> b, alpha |-> alpha, beta |-> beta, corr |-> corr,
     half_life |-> half_life, score |-> score]

\* The text of a CSV field: empty, a decimal number, or something float()
\* refuses.
EmptyText == [kind |-> "empty"]

JunkText == [kind |-> "junk"]

NumText(v) == [kind |-> "num", val |-> v]

\* The value with 12 decimals nearest to v: v itself when v is a whole number
\* or nan, and a value of its own otherwise.
Round12(v) ==
    IF "r12" \in DOMAIN v THEN v
    ELSE IF "den" \in DOMAIN v THEN (IF v.den = 1 THEN v ELSE [r12 |-> v])
    ELSE IF v.q <= 1 THEN v ELSE [r12 |-> v]

\* f"{v:.12f}"
FormatF12(v) == NumText(Round12(v))

\* float(text or default), where it does not raise
FloatOr(text, default) == IF text.kind = "empty" THEN default ELSE text.val

\* a row of pairs_rank.csv or pairs_last_good.csv; pair is the "pair" field
\* split at its slashes
CsvRow(pair, score, corr, alpha, beta, half_life) ==
    [pair |-> pair, score |-> score, corr |-> corr, alpha |-> alpha, beta |-> beta,
     half_life |-> half_life]

\* the loop of _try_load reading every row of the file, whatever top_n is
RECURSIVE try_load_rows_no_limit(_, _, _)
try_load_rows_no_limit(rows, out, top_n) ==
    IF rows = <<>> THEN Returns(out)
    ELSE LET row == Head(rows)
         IN  IF Len(row.pair) < 2 THEN try_load_rows_no_limit(Tail(rows), out, top_n)
             ELSE IF Len(row.pair) > 2 THEN Raised
             ELSE IF \E f \in {row.score, row.corr, row.alpha, row.beta, row.half_life} :
                        f.kind = "junk"
             THEN Raised
             ELSE try_load_rows_no_limit(Tail(rows),
                                Append(out, LoadedPairCfg(row.pair[1], row.pair[2],
                                                          FloatOr(row.alpha, Rat(0, 1)),
                                                          FloatOr(row.beta, Rat(1, 1)),
                                                          FloatOr(row.corr, Rat(0, 1)),
                                                          FloatOr(row.half_life, Rat(0, 1)),
                                                          FloatOr(row.score, Rat(0, 1)))),
                                top_n)

\* the loop of _try_load over the rows left, out being the pairs read so far:
\* `a, b = pair.split("/")` and float() raise ValueError
RECURSIVE try_load_rows(_, _, _)
try_load_rows(rows, out, top_n) ==
    IF rows = <<>> \/ Len(out) >= top_n THEN Returns(out)
    ELSE LET row == Head(rows)
         IN  IF Len(row.pair) < 2 THEN try_load_rows(Tail(rows), out, top_n)
             ELSE IF Len(row.pair) > 2 THEN Raised
             ELSE IF \E f \in {row.score, row.corr, row.alpha, row.beta, row.half_life} :
                        f.kind = "junk"
             THEN Raised
             ELSE try_load_rows(Tail(rows),
                                Append(out, LoadedPairCfg(row.pair[1], row.pair[2],
                                                          FloatOr(row.alpha, Rat(0, 1)),
                                                          FloatOr(row.beta, Rat(1, 1)),
                                                          FloatOr(row.corr, Rat(0, 1)),
                                                          FloatOr(row.half_life, Rat(0, 1)),
                                                          FloatOr(row.score, Rat(0, 1)))),
                                top_n)

\* _try_load(path) when the file at path is file (None: it does not exist)
try_load(file, top_n) ==
    IF IsNone(file) THEN Returns(<<>>) ELSE try_load_rows(Get(file), <<>>, top_n)

\* the file save_pairs_cache(pairs) writes
save_pairs_cache(pairs) ==
    Some([k \in 1..Len(pairs) |->
            CsvRow(<<pairs[k].a, pairs[k].b>>, FormatF12(pairs[k].score),
                   FormatF12(pairs[k].corr), FormatF12(pairs[k].alpha),
                   FormatF12(pairs[k].beta), FormatF12(pairs[k].half_life))])

defaults_raw ==
    <<<<"PETR4", "PETR3">>, <<"ITUB4", "BBDC4">>, <<"ELET3", "ELET6">>,
      <<"BBAS3", "ITUB4">>>>

\* symbol_exists(sym): ensure_symbol reports an unknown symbol by returning
\* False, which symbol_exists does not look at
symbol_exists(closes, sym) == TRUE

DEFAULT_CAL_MIN_CORR == Rat(7, 10)

\* the loop over defaults_raw from its k-th pair on, calibrated being the
\* pairs appended so far (closes: what get_close_series_d1 gives per symbol)
RECURSIVE calibrate_defaults(_, _, _)
calibrate_defaults(closes, k, calibrated) ==
    IF k > Len(defaults_raw) THEN calibrated
    ELSE LET a == defaults_raw[k][1]
             b == defaults_raw[k][2]
             r == calibrate_pair_from_mt5(closes[a], closes[b])
             res == Get(r.result)
         IN  IF ~symbol_exists(closes, a) \/ ~symbol_exists(closes, b)
             THEN calibrate_defaults(closes, k + 1, calibrated)
             ELSE IF r.raised THEN calibrate_defaults(closes, k + 1, calibrated)
             ELSE IF CorrLess(res.corr, DEFAULT_CAL_MIN_CORR)
             THEN calibrate_defaults(closes, k + 1, calibrated)
             ELSE calibrate_defaults(closes, k + 1,
                      Append(calibrated,
                             LoadedPairCfg(a, b, res.alpha, res.beta, res.corr,
                                           Rat(0, 1), Rat(0, 1))))

\* the pairs returned when nothing was calibrated
uncalibrated_defaults ==
    [k \in 1..Len(defaults_raw) |->
        LoadedPairCfg(defaults_raw[k][1], defaults_raw[k][2], Rat(0, 1), Rat(1, 1),
                      Rat(0, 1), Rat(0, 1), Rat(0, 1))]

\* seq[:n]
FirstN(seq, n) == SubSeq(seq, 1, Min(n, Len(seq)))

\* load_top_pairs(mt5_service, csv_path, top_n) when the file at csv_path is
\* ranked and data/pairs_last_good.csv is cache: what it returns (or that it
\* raised) and the cache file afterwards
load_top_pairs(ranked, cache, closes, top_n) ==
    LET r1 == try_load(ranked, top_n)
        r2 == try_load(cache, top_n)
        calibrated == calibrate_defaults(closes, 1, <<>>)
    IN  IF r1.raised THEN [raised |-> TRUE, result |-> None, cache |-> cache]
        ELSE IF Get(r1.result) # <<>>
        THEN [raised |-> FALSE, result |-> r1.result,
              cache |-> save_pairs_cache(Get(r1.result))]
        ELSE IF r2.raised THEN [raised |-> TRUE, result |-> None, cache |-> cache]
        ELSE IF Get(r2.result) # <<>>
        THEN [raised |-> FALSE, result |-> r2.result, cache |-> cache]
        ELSE IF calibrated # <<>>
        THEN [raised |-> FALSE, result |-> Some(FirstN(calibrated, top_n)),
              cache |-> save_pairs_cache(FirstN(calibrated, top_n))]
        ELSE [raised |-> FALSE, result |-> Some(FirstN(uncalibrated_defaults, top_n)),
              cache |-> cache]

----------------------------------------------------------------------------
(* operacoes/services/mt5_reset.py: detect_demo_reset_for_open_trades *)

\* five and two minutes, in seconds
DETECTION_WINDOW_PRE == 300

DETECTION_WINDOW_POST == 120

RESET_CLOSE_REASON == "DEMO_RESET_NO_DEAL_OUT"

\* _minimum_reset_age() with MT5_RESET_MIN_AGE_SECONDS left at its default
minimum_reset_age == 180

\* an OperationMT5Trade row; ticket and position_id may be null
Mt5Trade(ticket, position_id, opened_at) ==
    [ticket |-> ticket, position_id |-> position_id, opened_at |-> opened_at,
     status |-> "OPEN", closed_at |-> None, close_reason |-> ""]

\* a deal of the account's history
Deal(entry, position_id, order, timestamp) ==
    [entry |-> entry, position_id |-> position_id, order |-> order,
     deal |-> None, ticket |-> None, timestamp |-> timestamp]

\* _build_position_sets(positions)
build_position_sets(positions) ==
    [tickets |-> {Get(p.ticket) : p \in {q \in positions : ~IsNone(q.ticket)}},
     position_ids |-> {Get(p.position_id) : p \in {q \in positions : ~IsNone(q.position_id)}}]

\* _deal_matches_identifiers(deal, identifiers)
deal_matches_identifiers(deal, identifiers) ==
    /\ deal.entry = "OUT"
    /\ \E value \in {deal.position_id, deal.order, deal.deal, deal.ticket} :
          ~IsNone(value) /\ Get(value) \in identifiers

\* fetch_history_deals(from_dt, to_dt) on an account whose history is history
fetch_mt5_history_deals(history, from_dt, to_dt) ==
    {d \in history : from_dt <= d.timestamp /\ d.timestamp <= to_dt}

\* find_out_deal(identifiers, from_dt, to_dt): whether a matching OUT deal was
\* found, whether the history was fetched and whether that raised MT5BridgeError
find_out_deal(identifiers, from_dt, to_dt, history, fails) ==
    LET normalized == {Get(v) : v \in {w \in identifiers : ~IsNone(w)}}
    IN  IF normalized = {} THEN [deal |-> FALSE, fetched |-> FALSE, raised |-> FALSE]
        ELSE IF fails THEN [deal |-> FALSE, fetched |-> TRUE, raised |-> TRUE]
        ELSE [deal |-> \E d \in fetch_mt5_history_deals(history, from_dt, to_dt) :
                          deal_matches_identifiers(d, normalized),
              fetched |-> TRUE, raised |-> FALSE]

\* the body of the loop marking a trade although its history fetch failed
detect_trade_despite_error(trade, current, positions, history, fails) ==
    LET sets == build_position_sets(positions)
        in_positions ==
            \/ ~IsNone(trade.ticket) /\ Get(trade.ticket) \in sets.tickets
            \/ ~IsNone(trade.position_id) /\ Get(trade.position_id) \in sets.position_ids
        found == IF in_positions
                 THEN [deal |-> FALSE, fetched |-> FALSE, raised |-> FALSE]
                 ELSE find_out_deal({trade.ticket, trade.position_id},
                                    trade.opened_at - DETECTION_WINDOW_PRE,
                                    current + DETECTION_WINDOW_POST, history, fails)
        classification == IF in_positions THEN "normal_close"
                          ELSE IF found.deal THEN "closed"
                          ELSE "reset_demo_suspeito"
        should_mark_reset ==
            /\ ~in_positions
            /\ ~found.deal
            /\ current - trade.opened_at >= minimum_reset_age
    IN  IF ~should_mark_reset
        THEN [trade |-> trade, event |-> None, fetched |-> found.fetched]
        ELSE [trade |-> [trade EXCEPT !.status = "RESET", !.closed_at = Some(current),
                                      !.close_reason = RESET_CLOSE_REASON],
              event |-> Some([classification |-> classification,
                              from_dt |-> trade.opened_at - DETECTION_WINDOW_PRE,
                              to_dt |-> current + DETECTION_WINDOW_POST]),
              fetched |-> found.fetched]

\* The body of the loop of detect_demo_reset_for_open_trades for one OPEN
\* trade: the trade afterwards, the incident event created (if any) and
\* whether the history was fetched.  classify_close's result for a found deal
\* is "closed" here: it is only logged.
detect_trade(trade, current, positions, history, fails) ==
    LET sets == build_position_sets(positions)
        in_positions ==
            \/ ~IsNone(trade.ticket) /\ Get(trade.ticket) \in sets.tickets
            \/ ~IsNone(trade.position_id) /\ Get(trade.position_id) \in sets.position_ids
        found == IF in_positions
                 THEN [deal |-> FALSE, fetched |-> FALSE, raised |-> FALSE]
                 ELSE find_out_deal({trade.ticket, trade.position_id},
                                    trade.opened_at - DETECTION_WINDOW_PRE,
                                    current + DETECTION_WINDOW_POST, history, fails)
        classification == IF in_positions THEN "normal_close"
                          ELSE IF found.deal THEN "closed"
                          ELSE "reset_demo_suspeito"
        should_mark_reset ==
            /\ ~in_positions
            /\ ~found.deal
            /\ ~found.raised
            /\ current - trade.opened_at >= minimum_reset_age
    IN  IF ~should_mark_reset
        THEN [trade |-> trade, event |-> None, fetched |-> found.fetched]
        ELSE [trade |-> [trade EXCEPT !.status = "RESET", !.closed_at = Some(current),
                                      !.close_reason = RESET_CLOSE_REASON],
              event |-> Some([classification |-> classification,
                              from_dt |-> trade.opened_at - DETECTION_WINDOW_PRE,
                              to_dt |-> current + DETECTION_WINDOW_POST]),
              fetched |-> found.fetched]

\* the events of a run in the order of their trades
RECURSIVE SetToSortedSeq(_)
SetToSortedSeq(evs) ==
    IF evs = {} THEN <<>>
    ELSE LET first == CHOOSE e \in evs : \A o \in evs : e.trade <= o.trade
         IN  <<first>> \o SetToSortedSeq(evs \ {first})

\* detect_demo_reset_for_open_trades(now=current) on the trade table db: the
\* table afterwards, the incident events created (each with the row of its
\* trade), the rows whose history was fetched and the operation's status
detect_demo_reset_for_open_trades(db, current, positions, history, fails) ==
    LET open == {k \in 1..Len(db) : db[k].status = "OPEN"}
        done == [k \in 1..Len(db) |->
                    IF k \in open
                    THEN detect_trade(db[k], current, positions, history, fails)
                    ELSE [trade |-> db[k], event |-> None, fetched |-> FALSE]]
        trades_after == [k \in 1..Len(db) |-> done[k].trade]
    IN  [trades |-> trades_after,
         events |-> {[trade |-> k, classification |-> Get(done[k].event).classification] :
                        k \in {j \in open : ~IsNone(done[j].event)}},
         fetched |-> {k \in open : done[k].fetched},
         closes_operation |-> /\ \E k \in open : ~IsNone(done[k].event)
                              /\ \A k \in 1..Len(db) : trades_after[k].status # "OPEN"]

----------------------------------------------------------------------------
(* Bounds and inputs *)

MaxCycles == 4

\* cycles run when two pairs are configured
MaxPairCycles == 2

Window == 3

Warmup == 2

StaleSeconds == 1

MaxEngineTicks == 3

MaxGateTicks == 5

MaxTickPolls == 3

MaxUpdates == 4

\* cycles run by the monitor with window 5
MaxLiveCycles == 6

\* write() calls that json.dump of one document ends up in
DocChunks == 2

\* documents written, and reads made by the other process
MaxDocs == 3

MaxReads == 2

\* the longest series handed to a calibration
MaxSeries == 51

\* closes 1, 2, 1, 2, ... (or 2, 1, 2, 1, ...) of length k
Alternating(k, first) == [i \in 1..k |-> IF i % 2 = 1 THEN first ELSE 3 - first]

\* a series of length k: alternating, constant, or ending in a close of 0
SeriesOfLen(k) ==
    {Alternating(k, 1), Alternating(k, 2), [i \in 1..k |-> 1]}
    \cup (IF k = 0 THEN {} ELSE {[i \in 1..k |-> IF i = k THEN 0 ELSE 1]})

\* the series the calibration functions are called with
CalSeries == UNION {SeriesOfLen(k) : k \in (MaxSeries - 3)..MaxSeries}

\* the longest sample handed to an OLS fit directly
MaxOlsLen == 4

\* log-prices of a sample, in units of ln 2
OlsLogs == {0, 1, 2}

\* the samples of k log-prices
OlsSamples(k) == [1..k -> OlsLogs]

\* the most deals the history holds when an order's position is resolved
MaxDeals == 2

\* the deal ids of the history, each used once, the order's own being 99
DealIds == (100 - MaxDeals)..99

\* the attributes of an order result
ResultAttrs == {NoAttr, IntAttr(0), JunkAttr}

OrderResults ==
    {OrderResult(p, d) : p \in ResultAttrs \cup {IntAttr(42)},
                         d \in ResultAttrs \cup {IntAttr(99), IntAttr(55)}}

\* the histories of k deals with distinct deal ids
DealsOfLen(k) ==
    {h \in [1..k -> {HistoryDeal(IntAttr(d), IntAttr(q)) : d \in DealIds, q \in {0, 7, 8}}] :
        \A i, j \in 1..k : i # j => h[i].deal # h[j].deal}

Histories ==
    {HistoryRaises, HistoryReturns(None)}
    \cup {HistoryReturns(Some(h)) : h \in UNION {DealsOfLen(k) : k \in 0..MaxDeals}}

\* bars of a replayed feed after its first MIN_CALIBRATION_BARS - 1
MaxReplayBars == 4

\* --min-corr of the replay
ReplayMinCorr == Rat(7, 10)

\* The first 49 bars of a replayed feed.  "with": the legs move together on
\* 42 bars and apart on 7 (correlation 0.72); "against": leg B mirrored
\* (correlation -0.72); "flat": both legs stay at 1.
ReplayHead(kind) ==
    [i \in 1..(MIN_CALIBRATION_BARS - 1) |->
        LET pa == IF i <= 42 THEN 1 + (i % 2) ELSE IF i <= 46 THEN 2 ELSE 1
            pb == IF i <= 42 THEN 1 + (i % 2) ELSE IF i <= 46 THEN 1 ELSE 2
        IN  IF kind = "with" THEN D1Bar(pa, pb)
            ELSE IF kind = "against" THEN D1Bar(pa, 3 - pb)
            ELSE D1Bar(1, 1)]

\* the bars that may follow: the legs together, apart, or a bar without a close
ReplayBarKinds == {D1Bar(1, 1), D1Bar(2, 2), D1Bar(2, 1), D1Bar(0, 1)}

RECURSIVE ReplayTails(_)
ReplayTails(k) ==
    IF k = 0 THEN {<<>>}
    ELSE {Append(t, b) : t \in ReplayTails(k - 1), b \in ReplayBarKinds}

ReplayFeeds ==
    {ReplayHead(kind) \o t : kind \in {"with", "against", "flat"},
                             t \in ReplayTails(MaxReplayBars)}

\* rows of a pairs file, and the largest top_n
MaxRows == 2

MaxTopN == 2

\* Rows of a pairs file: two rows as calibrate_pairs' writer makes them, a row
\* with empty fields, a row whose pair has no slash, one whose pair has two,
\* and one with a score that is not a number.
FileRows ==
    {CsvRow(<<"A", "B">>, FormatF12(Rat(9, 10)), FormatF12(Rat(9, 10)),
            FormatF12(Rat(1, 3)), FormatF12(Rat(2, 1)), FormatF12(Rat(0, 1))),
     CsvRow(<<"C", "D">>, FormatF12(Rat(4, 5)), FormatF12(Rat(-4, 5)),
            FormatF12(Rat(0, 1)), FormatF12(Rat(-1, 2)), FormatF12(Rat(7, 1))),
     CsvRow(<<"E", "F">>, EmptyText, EmptyText, EmptyText, EmptyText, EmptyText),
     CsvRow(<<"AB">>, EmptyText, EmptyText, EmptyText, EmptyText, EmptyText),
     CsvRow(<<"A", "B", "C">>, EmptyText, EmptyText, EmptyText, EmptyText, EmptyText),
     CsvRow(<<"G", "H">>, JunkText, EmptyText, EmptyText, EmptyText, EmptyText)}

RECURSIVE FilesOfLen(_)
FilesOfLen(k) ==
    IF k = 0 THEN {<<>>}
    ELSE {Append(f, row) : f \in FilesOfLen(k - 1), row \in FileRows}

\* a pairs file: missing, or up to MaxRows rows
PairFiles == {None} \cup {Some(f) : f \in UNION {FilesOfLen(k) : k \in 0..MaxRows}}

\* the last-good cache: missing, or fewer than MaxRows rows
CacheFiles == {None} \cup {Some(f) : f \in UNION {FilesOfLen(k) : k \in 0..(MaxRows - 1)}}

\* pairs files that yield no pair
BarrenFiles == {None, Some(<<CsvRow(<<"AB">>, EmptyText, EmptyText, EmptyText, EmptyText,
                                   EmptyText)>>)}

\* What get_close_series_d1 may give for a default symbol: it raises (None),
\* 49 closes, 50 closes alternating 2 and 1, 25 closes of 1 then 25 of 2
\* (correlation 0 with the alternating closes), or 50 closes of 1.
DefaultCloses ==
    {None, Some(Alternating(MIN_SAMPLES - 1, 2)), Some(Alternating(MIN_SAMPLES, 2)),
     Some([i \in 1..MIN_SAMPLES |-> IF 2 * i <= MIN_SAMPLES THEN 1 ELSE 2]),
     Some([i \in 1..MIN_SAMPLES |-> 1])}

DefaultSymbols == {"PETR4", "PETR3", "ITUB4", "BBDC4", "ELET3", "ELET6", "BBAS3"}

\* the terminals load_top_pairs may meet: PETR4, PETR3 and ITUB4 vary one by
\* one, BBDC4 has its 50 alternating closes or none, and so have the other
\* three together
Terminals ==
    {[sym \in DefaultSymbols |->
        IF sym = "PETR4" THEN c1 ELSE IF sym = "PETR3" THEN c2
        ELSE IF sym = "ITUB4" THEN c3 ELSE IF sym = "BBDC4" THEN c4 ELSE c5] :
     c1 \in DefaultCloses, c2 \in DefaultCloses, c3 \in DefaultCloses,
     c4 \in {None, Some(Alternating(MIN_SAMPLES, 2))},
     c5 \in {None, Some(Alternating(MIN_SAMPLES, 2))}}

NoTerminalData == [sym \in DefaultSymbols |-> None]

\* runs of the demo reset detection
MaxDetections == 2

\* ticket and position_id of the trades in the table
ResetIdentifiers ==
    {<<Some(1), Some(1)>>, <<Some(1), None>>, <<None, Some(2)>>, <<Some(2), Some(2)>>,
     <<None, None>>}

\* the trade tables: one trade opened at 0, or two, the second at 0 or 100
ResetTables ==
    {<<Mt5Trade(i[1], i[2], 0)>> : i \in ResetIdentifiers}
    \cup {<<Mt5Trade(i[1], i[2], 0), Mt5Trade(j[1], j[2], t)>> :
              i \in ResetIdentifiers, j \in ResetIdentifiers, t \in {0, 100}}

\* the positions the broker may report
BrokerPositions ==
    {[ticket |-> Some(1), position_id |-> Some(1)], [ticket |-> Some(2), position_id |-> None]}

\* the deals the account's history may hold: position 1 closed at 50, opened
\* at 0, closed long before the window; order 2 closed at 50
BrokerDeals ==
    {Deal("OUT", Some(1), None, 50), Deal("IN", Some(1), None, 0),
     Deal("OUT", Some(1), None, -400), Deal("OUT", None, Some(2), 50)}

\* seconds between two runs of the detection
DetectionGaps == {100, 200}

\* cycles run where the wake detection is examined
MaxWakeCycles == 3

\* cycles of history appended when append_history_entry is driven directly
MaxHistoryCycles == 602

\* window and warmup settings of the directly driven RollingZScore (warmup may
\* be 0 and may exceed the window), and the values fed to it
EstWindows == {1, 2, 3}

EstWarmups == {0, 1, 2, 3, 4}

EstInputs == {0, 1, 3}

\* the doubles 100000000.0, 100000000.1 and 99999999.9 fed to the RollingZScore
\* that computes in binary64
F64Inputs == {F64(100000000, 0), F64(100000000, 6710886), F64(99999999, 60397978)}

\* spreads fed to the directly driven evaluation stage
GateSpreads == {-1, 0, 1}

\* sleep between cycles, in seconds
Dts == {1}

EnterZ == Rat(1, 1)

ExitBand == Rat(1, 2)

ConfirmModes == {"none", "consecutive", "increasing"}

SigmaMins == {Rat(0, 1), Rat(3, 4)}

\* sigma floors of the directly driven evaluation stage: 0.9 is above the std
\* of the window (1, -1, 0), in which a position closes
GateSigmaMins == SigmaMins \cup {Rat(9, 10)}

\* (last, bid, ask) of the ticks that arrive for a symbol: X trades at 1 and 4,
\* is quoted 2/2, and may get a tick with no price at all or with a negative
\* bid; the other symbols are bid 2
QuotesOf(sym) ==
    IF sym = "X"
    THEN {<<1, 0, 0>>, <<0, 2, 2>>, <<4, 0, 0>>, <<0, 0, 0>>, <<0, -1, 0>>}
    ELSE {<<0, 2, 0>>}

\* The ticks symbol_info_tick(sym) may return at time t when the latest tick
\* of sym is last: none at all, that tick again, or a tick that has just
\* arrived, whose time_msc is its arrival time.
TicksAt(sym, t, last) ==
    {None} \cup {last}
    \cup {Some(Tick(qt[1], qt[2], qt[3], t + 1)) : qt \in QuotesOf(sym)}

CycleLimit(rts) == IF Len(rts) = 1 THEN MaxCycles ELSE MaxPairCycles

\* thresholds and arguments of the directly driven SignalEngine
EngineEnterZs == {Rat(2, 1), Rat(0, 1)}

EngineExitBands == {Rat(1, 5)}

\* 2.5, 2.0, 1.0, 0.2, 0.1, 0, -2.0, -2.5
EngineZs == {ZVal(5, 4), ZVal(2, 1), ZVal(1, 1), ZVal(1, 25), ZVal(1, 100),
             ZVal(0, 1), ZVal(-2, 1), ZVal(-5, 4)}

EngineSpreads == {0, 1, 3}

EmptyCache == [s \in Symbols |-> None]

NoRes == [rt |-> 0, res |-> ShortRes, raised |-> FALSE]

----------------------------------------------------------------------------
(* main(): the poll loop *)

HISTORY_MAXLEN == 600

\* _PAIR_HISTORY before any pair was stepped: a dict without keys
NoHistory == [p \in {} |-> <<>>]

\* the entry main builds from a snapshot for the pair's history buffer, reduced
\* to its "ts"; the other fields are copies of the snapshot's fields as well
HistoryEntry(state) == [ts |-> state.last_update_ts]

\* append_history_entry on a deque that refuses the new entry once it is full
append_history_entry_keep_oldest(hist, pair, entry) ==
    IF pair \in DOMAIN hist
    THEN [hist EXCEPT ![pair] = IF Len(@) >= HISTORY_MAXLEN THEN @ ELSE Append(@, entry)]
    ELSE [p \in DOMAIN hist \cup {pair} |-> IF p = pair THEN <<entry>> ELSE hist[p]]

\* append_history_entry on the buffers hist: the pair's deque is created on
\* first use and drops its oldest entry beyond HISTORY_MAXLEN
append_history_entry(hist, pair, entry) ==
    IF pair \in DOMAIN hist
    THEN [hist EXCEPT ![pair] = DequeAppend(@, entry, HISTORY_MAXLEN)]
    ELSE [p \in DOMAIN hist \cup {pair} |->
            IF p = pair THEN DequeAppend(<<>>, entry, HISTORY_MAXLEN) ELSE hist[p]]

\* a logger that writes the P&L column empty on every row
TradeRow_pnl_dropped(pair, event, side, z, spread, pnl) ==
    [pair |-> pair, event |-> event, side |-> side, z |-> z, spread |-> spread,
     pnl_spread |-> None]

\* monitor_state_path, and the tmp_path that write_monitor_state derives from
\* a path (path.name + ".tmp" in the same directory)
StatePath == <<"monitor_state.json">>

\* a writer that opens the published file itself
TmpPath_in_place(path) == path

TmpPath(path) == path \o <<"tmp">>

\* the data directory before the first cycle: no file
EmptyDir == [names |-> [p \in {StatePath, TmpPath(StatePath)} |-> 0], data |-> <<>>]

\* the document a file content is a complete copy of (its chunks all carry the
\* document's number), or 0 when the content is not a complete document
DocOf(content) ==
    IF Len(content) = DocChunks /\ \A k \in 1..Len(content) : content[k] = content[1]
    THEN content[1] ELSE 0

\* MultiTradeLogger.log: the row appended to the trade log
TradeRow(pair, event, side, z, spread, pnl) ==
    [pair |-> pair, event |-> event, side |-> side, z |-> z, spread |-> spread,
     pnl_spread |-> pnl]

PairName(cfg) == <<cfg.a, cfg.b>>

\* the terminal after it returned tick for sym
Returned(mkt, sym, tick) == IF IsNone(tick) THEN mkt ELSE [mkt EXCEPT ![sym] = tick]

\* One iteration of "for rt in runtimes": rt.step(), then logger.log for an
\* ENTER or EXIT, whose append to the trade log may raise.  An exception that
\* leaves step or log leaves main through the finally clause.
StepPair(i, tick_a, tick_b, raise_at) ==
    /\ pc = "loop"
    /\ idx = i
    /\ i \in 1..Len(runtimes)
    /\ \E r \in {step(runtimes[i], tick_a, tick_b, raise_at, now,
                      LAST_TICK_MSC, LAST_SEEN_LOCAL)} :
       \E log_fails \in IF ~r.raised /\ r.res.status \in {"ENTER", "EXIT"}
                        THEN BOOLEAN ELSE {FALSE} :
       LET logs == ~r.raised /\ r.res.len = 7 /\ r.res.status \in {"ENTER", "EXIT"}
           dies == r.raised \/ log_fails
       IN  /\ runtimes' = [runtimes EXCEPT ![i] = r.self]
           /\ LAST_TICK_MSC' = r.msc
           /\ LAST_SEEN_LOCAL' = r.seen
           /\ last_res' = [rt |-> i, res |-> r.res, raised |-> r.raised]
           /\ trades' = IF logs /\ ~log_fails
                        THEN Append(trades, TradeRow(PairName(runtimes[i].cfg),
                                       r.res.status, r.res.side, r.res.z,
                                       r.res.spread, r.res.pnl))
                        ELSE trades
           /\ PAIR_HISTORY' =
                 IF r.raised THEN PAIR_HISTORY
                 ELSE append_history_entry(PAIR_HISTORY, PairName(runtimes[i].cfg),
                                           HistoryEntry(Get(r.self.last_state)))
           /\ pc' = IF dies THEN "crashed" ELSE "loop"
           /\ connected' = IF dies THEN FALSE ELSE connected
           /\ idx' = IF dies THEN idx ELSE idx + 1
    /\ IF solo.on /\ i = Len(runtimes)
       THEN \E sr \in {step(solo.rt, tick_a, tick_b, raise_at, now,
                            solo.msc, solo.seen)} :
               solo' = [on |-> TRUE, rt |-> sr.self, msc |-> sr.msc, seen |-> sr.seen,
                        res |-> sr.res, raised |-> sr.raised]
       ELSE solo' = solo
    /\ market' = IF raise_at = "a" THEN market
                 ELSE IF raise_at = "b" THEN Returned(market, runtimes[i].cfg.a, tick_a)
                 ELSE Returned(Returned(market, runtimes[i].cfg.a, tick_a),
                               runtimes[i].cfg.b, tick_b)
    /\ UNCHANGED <<cycle, now, monitor_state, monitor_history, eng, eng_in, eng_out,
                   g_rt, g_hist, side_vars>>

\* the runtimes of rts that have a snapshot, in order
RECURSIVE WithState(_)
WithState(rts) ==
    IF rts = <<>> THEN <<>>
    ELSE IF IsNone(Head(rts).last_state) THEN WithState(Tail(rts))
    ELSE <<Head(rts)>> \o WithState(Tail(rts))

\* the state document written by write_monitor_state: the cycle's time stamp
\* and the list of the runtimes' snapshots, each reduced to its pair and its
\* last_update_ts
StateDoc(ts, rts) ==
    [ts |-> ts,
     pairs |-> [j \in 1..Len(WithState(rts)) |->
                  [pair |-> PairName(WithState(rts)[j].cfg),
                   last_update_ts |-> Get(WithState(rts)[j].last_state).last_update_ts]]]

\* the history document written by write_monitor_history: the cycle's time
\* stamp and a copy of every pair's buffer
HistoryDoc(ts, hist) == [ts |-> ts, history |-> hist]

\* End of a cycle: write_monitor_state with every runtime's last_state, then
\* write_monitor_history with the buffers, then time.sleep(poll_seconds).
Publish(dt) ==
    /\ pc = "loop"
    /\ idx = Len(runtimes) + 1
    /\ monitor_state' = Some(StateDoc(now, runtimes))
    /\ monitor_history' = Some(HistoryDoc(now, PAIR_HISTORY))
    /\ cycle' = cycle + 1
    /\ now' = now + dt
    /\ idx' = 1
    /\ UNCHANGED <<pc, runtimes, LAST_TICK_MSC, LAST_SEEN_LOCAL, market, trades,
                   PAIR_HISTORY, connected, last_res, solo, eng, eng_in, eng_out,
                   g_rt, g_hist, side_vars>>

NewRuntime(cfg, mode, sigma) ==
    PairRuntime(cfg, Window, Warmup, EnterZ, ExitBand, StaleSeconds, mode, sigma)

\* main() after the runtimes are built from the pair list
InitMonitor(pairs, modes, sigmas, with_solo) ==
    /\ pc = "loop"
    /\ idx = 1
    /\ cycle = 0
    /\ now = 0
    /\ \E mode \in modes, sigma \in sigmas :
          /\ runtimes = [k \in 1..Len(pairs) |-> NewRuntime(pairs[k], mode, sigma)]
          /\ solo = [on |-> with_solo,
                     rt |-> NewRuntime(pairs[Len(pairs)], mode, sigma),
                     msc |-> EmptyCache, seen |-> EmptyCache,
                     res |-> ShortRes, raised |-> FALSE]
    /\ LAST_TICK_MSC = EmptyCache
    /\ LAST_SEEN_LOCAL = EmptyCache
    /\ market = EmptyCache
    /\ trades = <<>>
    /\ monitor_state = None
    /\ PAIR_HISTORY = NoHistory
    /\ monitor_history = None
    /\ connected = TRUE
    /\ last_res = NoRes

\* no document written, no read begun
InitFilesIdle ==
    /\ fs = EmptyDir
    /\ wr = [pc |-> "idle", doc |-> 0, ino |-> 0]
    /\ rd = [pc |-> "idle", ino |-> 0, buf |-> <<>>, from |-> 0, reads |-> 0]

\* nothing has been calibrated, replayed, loaded or reconciled
InitOfflineIdle ==
    /\ cal = None
    /\ rp = None
    /\ ltp = None
    /\ rst = None
    /\ resolved = None

\* nothing has been driven directly yet
InitSideIdle ==
    /\ obs = <<>>
    /\ rz = RollingZScore(Window, Warmup)
    /\ rz_in = <<>>
    /\ rz_out = <<>>
    /\ InitFilesIdle
    /\ InitOfflineIdle

InitEngineIdle ==
    /\ InitSideIdle
    /\ eng = SignalEngine(EnterZ, ExitBand)
    /\ eng_in = <<>>
    /\ eng_out = <<>>
    /\ g_rt = NewRuntime(PairCfg("X", "Y", 0, 1), "none", Rat(0, 1))
    /\ g_hist = <<>>

Init ==
    /\ InitMonitor(<<PairCfg("X", "Y", 0, 1)>>, ConfirmModes, SigmaMins, FALSE)
    /\ InitEngineIdle

\* the ticks the second call of a step may get, after the first returned tick_a
TicksB(i, tick_a) ==
    TicksAt(runtimes[i].cfg.b, now,
            Returned(market, runtimes[i].cfg.a, tick_a)[runtimes[i].cfg.b])

\* a poll in which both symbol_info_tick calls return
Poll ==
    \E i \in 1..Len(runtimes) :
        /\ cycle < CycleLimit(runtimes)
        /\ \E ta \in TicksAt(runtimes[i].cfg.a, now, market[runtimes[i].cfg.a]) :
            \E tb \in TicksB(i, ta) : StepPair(i, ta, tb, "")

\* a poll in which the first or the second symbol_info_tick call raises
PollSourceError ==
    \E i \in 1..Len(runtimes) :
        /\ cycle < CycleLimit(runtimes)
        /\ \/ StepPair(i, None, None, "a")
           \/ \E ta \in TicksAt(runtimes[i].cfg.a, now, market[runtimes[i].cfg.a]) :
              StepPair(i, ta, None, "b")

\* main() with the default pairs ITUB4/BBDC4 and BBAS3/ITUB4 (X is shared),
\* and the second pair also run on its own, with caches of its own, on the
\* very ticks it is given here
InitPairs ==
    /\ InitMonitor(<<PairCfg("X", "Y", 0, 1), PairCfg("W", "X", 0, 1)>>,
                   {"none"}, {Rat(0, 1)}, TRUE)
    /\ InitEngineIdle

\* engine.on_tick(z, spread) called directly
EngineTick(z, spread) ==
    /\ Len(eng_in) < MaxEngineTicks
    /\ \E r \in {on_tick(eng, z, spread)} :
          /\ eng' = r.self
          /\ eng_in' = Append(eng_in, [z |-> z, spread |-> spread, pos |-> eng.pos])
          /\ eng_out' = Append(eng_out, [status |-> r.status, side |-> r.side,
                                         pnl |-> r.pnl])
    /\ UNCHANGED <<monitor_vars, gate_vars, side_vars>>

InitEngine ==
    /\ InitMonitor(<<PairCfg("X", "Y", 0, 1)>>, {"none"}, {Rat(0, 1)}, FALSE)
    /\ InitSideIdle
    /\ eng \in {SignalEngine(e, x) : e \in EngineEnterZs, x \in EngineExitBands}
    /\ eng_in = <<>>
    /\ eng_out = <<>>
    /\ g_rt = NewRuntime(PairCfg("X", "Y", 0, 1), "none", Rat(0, 1))
    /\ g_hist = <<>>

NextEngine == \E z \in EngineZs, spread \in EngineSpreads : EngineTick(z, spread)

\* The part of step that runs when both legs are live and the pair is neither
\* stale nor idle (lines 452-503), applied to the spread of such a cycle.
GateTick(spread) ==
    /\ Len(g_hist) < MaxGateTicks
    /\ \E r \in {step_evaluate(g_rt, spread,
                                Snapshot("", "ready", "", "", FALSE, FALSE, None, None,
                                         Some(spread), None, FALSE))} :
          /\ g_rt' = r.self
          /\ g_hist' = Append(g_hist, [spread |-> spread,
                                       z |-> Get(r.self.last_state).z,
                                       signal |-> Get(r.self.last_state).signal,
                                       flat |-> IsNone(g_rt.engine.pos)])
    /\ UNCHANGED <<monitor_vars, engine_vars, side_vars>>

InitGate ==
    /\ InitMonitor(<<PairCfg("X", "Y", 0, 1)>>, {"none"}, {Rat(0, 1)}, FALSE)
    /\ InitSideIdle
    /\ eng = SignalEngine(EnterZ, ExitBand)
    /\ eng_in = <<>>
    /\ eng_out = <<>>
    /\ g_rt \in {NewRuntime(PairCfg("X", "Y", 0, 1), mode, sigma) :
                    mode \in ConfirmModes, sigma \in GateSigmaMins}
    /\ g_hist = <<>>

NextGate == \E spread \in GateSpreads : GateTick(spread)

\* the ticks symbol_info_tick(sym) may return to a direct call: none, the
\* latest one again, one that has just arrived, one whose time_msc is 1 (an
\* identity seen before) and one that carries no time_msc
DirectTicks(sym) ==
    {None, market[sym], Some(Tick(1, 0, 0, now + 1)), Some(Tick(1, 0, 0, 1)),
     Some(Tick(1, 0, 0, 0))}

\* dt seconds pass, then get_tick_state(sym, StaleSeconds) is called and
\* symbol_info_tick returns otick
TickPoll(sym, otick, dt) ==
    /\ Len(obs) < MaxTickPolls
    /\ \E r \in {get_tick_state(sym, StaleSeconds, otick, now + dt,
                                LAST_TICK_MSC, LAST_SEEN_LOCAL)} :
          /\ LAST_TICK_MSC' = r.msc
          /\ LAST_SEEN_LOCAL' = r.seen
          /\ obs' = Append(obs, [symbol |-> sym, t |-> now + dt,
                                 id |-> IF IsNone(otick) THEN None
                                        ELSE Some(Get(otick).time_msc),
                                 price |-> r.price, age |-> r.age,
                                 same_tick |-> r.same_tick, status |-> r.status])
    /\ now' = now + dt
    /\ market' = Returned(market, sym, otick)
    /\ UNCHANGED <<pc, idx, cycle, runtimes, trades, monitor_state, PAIR_HISTORY,
                   monitor_history, connected, last_res, solo, engine_vars, gate_vars,
                   est_vars, file_vars, offline_vars>>

\* rz.update(x) called directly
EstTick(x) ==
    /\ Len(rz_in) < MaxUpdates
    /\ \E r \in {update(rz, x)} :
          /\ rz' = r.self
          /\ rz_in' = Append(rz_in, x)
          /\ rz_out' = Append(rz_out, r.z)
    /\ UNCHANGED <<monitor_vars, engine_vars, gate_vars, tick_vars, file_vars,
                   offline_vars>>

InitEst ==
    /\ InitMonitor(<<PairCfg("X", "Y", 0, 1)>>, {"none"}, {Rat(0, 1)}, FALSE)
    /\ eng = SignalEngine(EnterZ, ExitBand)
    /\ eng_in = <<>>
    /\ eng_out = <<>>
    /\ g_rt = NewRuntime(PairCfg("X", "Y", 0, 1), "none", Rat(0, 1))
    /\ g_hist = <<>>
    /\ obs = <<>>
    /\ rz \in {RollingZScore(w, u) : w \in EstWindows, u \in EstWarmups}
    /\ rz_in = <<>>
    /\ rz_out = <<>>
    /\ InitFilesIdle
    /\ InitOfflineIdle

NextEst == \E x \in EstInputs : EstTick(x)

\* rz.update(x) called directly with a double, computed in binary64
EstTickF64(x) ==
    /\ Len(rz_in) < MaxUpdates
    /\ \E r \in {update_f64(rz, x)} :
          /\ rz' = r.self
          /\ rz_in' = Append(rz_in, x)
          /\ rz_out' = Append(rz_out, r.z)
    /\ UNCHANGED <<monitor_vars, engine_vars, gate_vars, tick_vars, file_vars,
                   offline_vars>>

NextF64 == \E x \in F64Inputs : EstTickF64(x)

\* main(z_window=5, warmup=5, enter_z=2.0, exit_band=0.2) with one pair,
\* alpha=0 and beta=1, and the default stale_seconds
InitLive ==
    /\ pc = "loop"
    /\ idx = 1
    /\ cycle = 0
    /\ now = 0
    /\ runtimes = <<PairRuntime(PairCfg("X", "Y", 0, 1), 5, 5, Rat(2, 1), Rat(1, 5),
                                300, "none", Rat(0, 1))>>
    /\ solo = [on |-> FALSE, rt |-> runtimes[1], msc |-> EmptyCache,
               seen |-> EmptyCache, res |-> ShortRes, raised |-> FALSE]
    /\ LAST_TICK_MSC = EmptyCache
    /\ LAST_SEEN_LOCAL = EmptyCache
    /\ market = EmptyCache
    /\ trades = <<>>
    /\ monitor_state = None
    /\ PAIR_HISTORY = NoHistory
    /\ monitor_history = None
    /\ connected = TRUE
    /\ last_res = NoRes
    /\ InitEngineIdle

\* a poll in which both legs have a tick that has just arrived: leg A trades
\* at 1 or at 2^10, leg B at 1, so the log-spread is 0 or 10 (units of ln 2)
LivePoll ==
    /\ cycle < MaxLiveCycles
    /\ \E pa \in {1, 2^10} :
          StepPair(1, Some(Tick(pa, 0, 0, now + 1)), Some(Tick(1, 0, 0, now + 1)), "")

NextLive == LivePoll \/ \E dt \in Dts : Publish(dt)

\* the document the published path holds (0: no file, or not a complete one)
PublishedDoc(dir) ==
    IF dir.names[StatePath] = 0 THEN 0 ELSE DocOf(dir.data[dir.names[StatePath]])

\* write_monitor_state, line 43: tmp_path.open("w") creates the file, or
\* truncates it if the name exists, for the next document
WriterOpen ==
    /\ wr.pc = "idle"
    /\ wr.doc < MaxDocs
    /\ LET tmp == TmpPath(StatePath)
       IN  IF fs.names[tmp] = 0
           THEN /\ fs' = [names |-> [fs.names EXCEPT ![tmp] = Len(fs.data) + 1],
                          data |-> Append(fs.data, <<>>)]
                /\ wr' = [pc |-> "writing", doc |-> wr.doc + 1, ino |-> Len(fs.data) + 1]
           ELSE /\ fs' = [fs EXCEPT !.data[fs.names[tmp]] = <<>>]
                /\ wr' = [pc |-> "writing", doc |-> wr.doc + 1, ino |-> fs.names[tmp]]
    /\ UNCHANGED <<rd, monitor_vars, engine_vars, gate_vars, tick_vars, est_vars,
                   offline_vars>>

\* line 44: one write() of json.dump's output reaches the file
WriterWrite ==
    /\ wr.pc = "writing"
    /\ Len(fs.data[wr.ino]) < DocChunks
    /\ fs' = [fs EXCEPT !.data[wr.ino] = Append(@, wr.doc)]
    /\ UNCHANGED <<wr, rd, monitor_vars, engine_vars, gate_vars, tick_vars, est_vars,
                   offline_vars>>

\* the end of the with block: the file is complete and closed
WriterClose ==
    /\ wr.pc = "writing"
    /\ Len(fs.data[wr.ino]) = DocChunks
    /\ wr' = [wr EXCEPT !.pc = "closed"]
    /\ UNCHANGED <<fs, rd, monitor_vars, engine_vars, gate_vars, tick_vars, est_vars,
                   offline_vars>>

\* line 45: tmp_path.replace(path) binds path to the file written and removes
\* the name tmp_path, in one step; a reader that has the old file open keeps it
WriterReplace ==
    /\ wr.pc = "closed"
    /\ LET tmp == TmpPath(StatePath)
       IN  fs' = IF tmp = StatePath THEN fs
                 ELSE [fs EXCEPT !.names = [@ EXCEPT ![StatePath] = fs.names[tmp],
                                                     ![tmp] = 0]]
    /\ wr' = [wr EXCEPT !.pc = "idle"]
    /\ UNCHANGED <<rd, monitor_vars, engine_vars, gate_vars, tick_vars, est_vars,
                   offline_vars>>

\* line 45 where a file that another process has open cannot be replaced
\* (Windows): replace raises PermissionError and nothing changes on disk
WriterReplaceDenied ==
    /\ wr.pc = "closed"
    /\ rd.pc = "reading"
    /\ rd.ino = fs.names[StatePath]
    /\ wr' = [wr EXCEPT !.pc = "failed"]
    /\ UNCHANGED <<fs, rd, monitor_vars, engine_vars, gate_vars, tick_vars, est_vars,
                   offline_vars>>

\* views.monitor_state, lines 27-30: STATE_PATH.exists(), then read_text()
\* opens the file the name is bound to at that moment
ReaderOpen ==
    /\ rd.pc = "idle"
    /\ rd.reads < MaxReads
    /\ rd' = IF fs.names[StatePath] = 0
             THEN [rd EXCEPT !.pc = "missing", !.ino = 0, !.buf = <<>>]
             ELSE [rd EXCEPT !.pc = "reading", !.ino = fs.names[StatePath],
                             !.buf = <<>>, !.from = PublishedDoc(fs)]
    /\ UNCHANGED <<fs, wr, monitor_vars, engine_vars, gate_vars, tick_vars, est_vars,
                   offline_vars>>

\* read_text(): one read() returns the next chunk of the open file, or the end
\* of the file, which ends the read
ReaderRead ==
    /\ rd.pc = "reading"
    /\ rd' = IF Len(rd.buf) < Len(fs.data[rd.ino])
             THEN [rd EXCEPT !.buf = Append(@, fs.data[rd.ino][Len(rd.buf) + 1])]
             ELSE [rd EXCEPT !.pc = "done"]
    /\ UNCHANGED <<fs, wr, monitor_vars, engine_vars, gate_vars, tick_vars, est_vars,
                   offline_vars>>

\* the view returns; the next request may come
ReaderReturn ==
    /\ rd.pc \in {"done", "missing"}
    /\ rd' = [rd EXCEPT !.pc = "idle", !.reads = @ + 1]
    /\ UNCHANGED <<fs, wr, monitor_vars, engine_vars, gate_vars, tick_vars, est_vars,
                   offline_vars>>

NextFiles ==
    \/ WriterOpen
    \/ WriterWrite
    \/ WriterClose
    \/ WriterReplace
    \/ WriterReplaceDenied
    \/ ReaderOpen
    \/ ReaderRead
    \/ ReaderReturn

InitTick ==
    /\ InitMonitor(<<PairCfg("X", "Y", 0, 1)>>, {"none"}, {Rat(0, 1)}, FALSE)
    /\ InitEngineIdle

NextTick ==
    \E sym \in {"X", "Y"}, dt \in {0, 1, 2} :
        \E otick \in DirectTicks(sym) : TickPoll(sym, otick, dt)

Next ==
    \/ Poll
    \/ PollSourceError
    \/ \E dt \in Dts : Publish(dt)

Spec == Init /\ [][Next]_vars

SpecPairs == InitPairs /\ [][Next]_vars

\* main(), lines 732-735: a KeyboardInterrupt raised anywhere in the while loop
\* (between two pairs, before the documents are written, or in the sleep)
\* leaves it at once for the except clause, and the finally clause disconnects
Interrupt ==
    /\ pc = "loop"
    /\ pc' = "stopped"
    /\ connected' = FALSE
    /\ UNCHANGED <<idx, cycle, now, runtimes, LAST_TICK_MSC, LAST_SEEN_LOCAL, market,
                   trades, monitor_state, PAIR_HISTORY, monitor_history, last_res, solo,
                   engine_vars, gate_vars, side_vars>>

NextInterrupt == Next \/ Interrupt

\* two pairs, and a termination signal that may arrive at any point
SpecInterrupt == InitPairs /\ [][NextInterrupt]_vars

\* main(), lines 663-681, reduced to the history: the pair at idx gets the
\* entry of this cycle, whatever its step reported
HistoryAppend ==
    /\ pc = "loop"
    /\ cycle < MaxHistoryCycles
    /\ idx \in 1..Len(runtimes)
    /\ PAIR_HISTORY' = append_history_entry(PAIR_HISTORY, PairName(runtimes[idx].cfg),
                                            [ts |-> now])
    /\ idx' = idx + 1
    /\ UNCHANGED <<pc, cycle, now, runtimes, LAST_TICK_MSC, LAST_SEEN_LOCAL, market,
                   trades, monitor_state, monitor_history, connected, last_res, solo,
                   engine_vars, gate_vars, side_vars>>

\* the end of such a cycle: the sleep, and the next pass over the pairs
HistoryNextCycle ==
    /\ pc = "loop"
    /\ idx = Len(runtimes) + 1
    /\ idx' = 1
    /\ cycle' = cycle + 1
    /\ now' = now + 1
    /\ UNCHANGED <<pc, runtimes, LAST_TICK_MSC, LAST_SEEN_LOCAL, market, trades,
                   monitor_state, PAIR_HISTORY, monitor_history, connected, last_res,
                   solo, engine_vars, gate_vars, side_vars>>

NextHistory == HistoryAppend \/ HistoryNextCycle

\* a poll of the single pair, with every tick either leg may return
WakePoll ==
    /\ cycle < MaxWakeCycles
    /\ \E ta \in TicksAt(runtimes[1].cfg.a, now, market[runtimes[1].cfg.a]) :
          \E tb \in TicksB(1, ta) : StepPair(1, ta, tb, "")

NextWake == WakePoll \/ \E dt \in Dts : Publish(dt)

\* one pair, entry confirmation off and no sigma floor
SpecWake == InitTick /\ [][NextWake]_vars

\* calibrate_pair_from_series(ca, cb) called directly
CalibrateSeries(ca, cb) ==
    /\ IsNone(cal)
    /\ cal' = Some([fn |-> "series", a |-> Some(ca), b |-> Some(cb),
                    count |-> Min(Len(ca), Len(cb)),
                    out |-> calibrate_pair_from_series(ca, cb)])
    /\ UNCHANGED <<monitor_vars, engine_vars, gate_vars, tick_vars, est_vars, file_vars,
                   rp, ltp, rst, resolved>>

\* calibrate_pair_from_mt5 called directly, the terminal giving sa and sb
CalibrateMt5(sa, sb) ==
    /\ IsNone(cal)
    /\ cal' = Some([fn |-> "mt5", a |-> sa, b |-> sb,
                    count |-> IF IsNone(sa) \/ IsNone(sb) THEN 0
                              ELSE Min(Len(Get(sa)), Len(Get(sb))),
                    out |-> calibrate_pair_from_mt5(sa, sb)])
    /\ UNCHANGED <<monitor_vars, engine_vars, gate_vars, tick_vars, est_vars, file_vars,
                   rp, ltp, rst, resolved>>

\* _calibrate_up_to(count) called directly on a feed whose bars pair ca with cb
CalibrateUpTo(ca, cb, count) ==
    /\ IsNone(cal)
    /\ Len(ca) = Len(cb)
    /\ LET bars == [k \in 1..Len(ca) |-> [price_a |-> ca[k], price_b |-> cb[k]]]
       IN  cal' = Some([fn |-> "up_to", a |-> Some(ca), b |-> Some(cb),
                        count |-> Min(count, Len(bars)),
                        out |-> calibrate_up_to(bars, count)])
    /\ UNCHANGED <<monitor_vars, engine_vars, gate_vars, tick_vars, est_vars, file_vars,
                   rp, ltp, rst, resolved>>

\* one call of one of the three entry points
NextCalib ==
    /\ IsNone(cal)
    /\ \/ \E ca \in CalSeries, cb \in CalSeries : CalibrateSeries(ca, cb)
       \/ \E sa \in {None} \cup {Some(c) : c \in CalSeries} :
             \E sb \in {None} \cup {Some(c) : c \in CalSeries} : CalibrateMt5(sa, sb)
       \/ \E ca \in CalSeries, cb \in CalSeries :
             \E count \in (MaxSeries - 3)..(MaxSeries + 1) : CalibrateUpTo(ca, cb, count)

\* the three calibration entry points on series around the minimum length
SpecCalib == InitTick /\ [][NextCalib]_vars

\* ols_alpha_beta(y, x) called on two samples of one length
OlsAlphaBeta(y, x) ==
    /\ IsNone(cal)
    /\ cal' = Some([fn |-> "ols_alpha_beta", y |-> y, x |-> x,
                    out |-> Only({[alpha |-> r.alpha, beta |-> r.beta]
                                  : r \in {ols_alpha_beta(y, x)}})])
    /\ UNCHANGED <<monitor_vars, engine_vars, gate_vars, tick_vars, est_vars, file_vars,
                   rp, ltp, rst, resolved>>

\* _ols_with_intercept(y, x) of hedge.py called on two samples of one length
OlsWithIntercept(y, x) ==
    /\ IsNone(cal)
    /\ cal' = Some([fn |-> "_ols_with_intercept", y |-> y, x |-> x,
                    out |-> ols_with_intercept(y, x)])
    /\ UNCHANGED <<monitor_vars, engine_vars, gate_vars, tick_vars, est_vars, file_vars,
                   rp, ltp, rst, resolved>>

\* one fit by one of the repository's OLS routines
NextOls ==
    /\ IsNone(cal)
    /\ \E k \in 1..MaxOlsLen : \E y \in OlsSamples(k), x \in OlsSamples(k) :
          \/ OlsAlphaBeta(y, x)
          \/ OlsWithIntercept(y, x)

SpecOls == InitTick /\ [][NextOls]_vars

\* _resolve_position_id(result) called after an order was sent
ResolvePositionId(result, history) ==
    /\ IsNone(resolved)
    /\ resolved' = Some([result |-> result, history |-> history,
                         out |-> resolve_position_id(result, history)])
    /\ UNCHANGED <<monitor_vars, engine_vars, gate_vars, tick_vars, est_vars, file_vars,
                   cal, rp, ltp, rst>>

NextResolve ==
    /\ IsNone(resolved)
    /\ \E result \in OrderResults, history \in Histories : ResolvePositionId(result, history)

SpecResolve == InitTick /\ [][NextResolve]_vars

\* main() of the replay constructs the PairReplay of a pair
ReplayConstruct(bars, recalibrate) ==
    /\ IsNone(rp)
    /\ rp' = Some([self |-> PairReplay(bars, Window, Warmup, EnterZ, ExitBand,
                                       recalibrate, ReplayMinCorr),
                   pc |-> "init", idx |-> 0, log |-> <<>>])
    /\ UNCHANGED <<monitor_vars, engine_vars, gate_vars, tick_vars, est_vars, file_vars,
                   cal, ltp, rst, resolved>>

\* main(): `if not pair.initialize(): continue`
ReplayInitialize ==
    /\ ~IsNone(rp)
    /\ Get(rp).pc = "init"
    /\ \E r \in {initialize(Get(rp).self)} :
          rp' = Some([Get(rp) EXCEPT !.self = r.self,
                                     !.pc = IF r.ok THEN "run" ELSE "skipped"])
    /\ UNCHANGED <<monitor_vars, engine_vars, gate_vars, tick_vars, est_vars, file_vars,
                   cal, ltp, rst, resolved>>

\* one pass of the loop of run()
ReplayBar ==
    /\ ~IsNone(rp)
    /\ Get(rp).pc = "run"
    /\ Get(rp).idx < Len(Get(rp).self.bars)
    /\ \E r \in {run_bar(Get(rp).self, Get(rp).idx + 1)} :
          rp' = Some([Get(rp) EXCEPT !.self = r.self,
                                     !.idx = @ + 1,
                                     !.log = @ \o r.logged])
    /\ UNCHANGED <<monitor_vars, engine_vars, gate_vars, tick_vars, est_vars, file_vars,
                   cal, ltp, rst, resolved>>

NextReplay ==
    \/ /\ IsNone(rp)
       /\ \E bars \in ReplayFeeds, recalibrate \in BOOLEAN :
             ReplayConstruct(bars, recalibrate)
    \/ ReplayInitialize
    \/ ReplayBar

\* the replay of one pair over its feed, with and without recalibration
SpecReplay == InitTick /\ [][NextReplay]_vars

\* main() calls load_top_pairs
LoadTopPairs(ranked, cache, closes, top_n) ==
    /\ IsNone(ltp)
    /\ ltp' = Some([ranked |-> ranked, cache |-> cache, closes |-> closes,
                    top_n |-> top_n,
                    out |-> load_top_pairs(ranked, cache, closes, top_n)])
    /\ UNCHANGED <<monitor_vars, engine_vars, gate_vars, tick_vars, est_vars, file_vars,
                   cal, rp, rst, resolved>>

\* one call, on a terminal without data or without a ranked list
NextLoad ==
    /\ IsNone(ltp)
    /\ \/ \E ranked \in PairFiles, cache \in CacheFiles, top_n \in 0..MaxTopN :
             LoadTopPairs(ranked, cache, NoTerminalData, top_n)
       \/ \E cache \in BarrenFiles, top_n \in 1..MaxTopN :
             \E closes \in Terminals : LoadTopPairs(None, cache, closes, top_n)

\* load_top_pairs over the files and terminals it may find at startup
SpecLoad == InitTick /\ [][NextLoad]_vars

\* the trade table, the broker's positions and the account's history
ResetSetup(db, positions, history) ==
    /\ IsNone(rst)
    /\ rst' = Some([trades |-> db, positions |-> positions, history |-> history,
                    events |-> <<>>, current |-> 0, runs |-> 0, fails |-> FALSE,
                    fetched |-> {}, operation |-> "OPEN"])
    /\ UNCHANGED <<monitor_vars, engine_vars, gate_vars, tick_vars, est_vars, file_vars,
                   cal, rp, ltp, resolved>>

\* one call of detect_demo_reset_for_open_trades, gap seconds after the last;
\* fails: fetch_mt5_history_deals raises MT5BridgeError
DetectReset(gap, fails) ==
    /\ ~IsNone(rst)
    /\ Get(rst).runs < MaxDetections
    /\ \E r \in {detect_demo_reset_for_open_trades(Get(rst).trades, Get(rst).current + gap,
                                                    Get(rst).positions, Get(rst).history,
                                                    fails)} :
          rst' = Some([Get(rst) EXCEPT
                          !.trades = r.trades,
                          !.events = @ \o SetToSortedSeq(r.events),
                          !.current = @ + gap,
                          !.runs = @ + 1,
                          !.fails = fails,
                          !.fetched = r.fetched,
                          !.operation = IF r.closes_operation THEN "CLOSED" ELSE @])
    /\ UNCHANGED <<monitor_vars, engine_vars, gate_vars, tick_vars, est_vars, file_vars,
                   cal, rp, ltp, resolved>>

NextReset ==
    \/ /\ IsNone(rst)
       /\ \E db \in ResetTables, positions \in SUBSET BrokerPositions,
             history \in SUBSET BrokerDeals : ResetSetup(db, positions, history)
    \/ \E gap \in DetectionGaps, fails \in BOOLEAN : DetectReset(gap, fails)

\* the demo reset detection run over a trade table
SpecReset == InitTick /\ [][NextReset]_vars

\* the history buffers of two pairs over more than HISTORY_MAXLEN cycles
SpecHistory == InitPairs /\ [][NextHistory]_vars

\* the writer of the state document and a concurrent reader
SpecFiles == InitTick /\ [][NextFiles]_vars

SpecEngine == InitEngine /\ [][NextEngine]_vars

SpecGate == InitGate /\ [][NextGate]_vars

SpecTick == InitTick /\ [][NextTick]_vars

SpecEst == InitEst /\ [][NextEst]_vars

SpecF64 == InitEst /\ [][NextF64]_vars

SpecLive == InitLive /\ [][NextLive]_vars

----------------------------------------------------------------------------
(* Properties *)

\* runtime i was stepped in this transition (step returned, or raised)
StepRan(i) ==
    /\ pc = "loop"
    /\ idx = i
    /\ i \in 1..Len(runtimes)
    /\ idx' = i + 1 \/ pc' = "crashed"

\* step of runtime i returned event ev in this transition
Emitted(i, ev) == StepRan(i) /\ last_res'.rt = i /\ last_res'.res.status = ev

\* the rows of the trade log that belong to pair name
TradesOf(name) == SelectSeq(trades, LAMBDA row : row.pair = name)

EnterExitAlternate(rows) ==
    \A j \in 1..Len(rows), k \in 1..Len(rows) :
        (j < k /\ rows[j].event = "ENTER" /\ rows[k].event = "ENTER")
            => \E m \in (j + 1)..(k - 1) : rows[m].event = "EXIT"

\* C1: a pair holds at most one position; ENTER is emitted only by a step that
\* began Flat and it opens the position; between two ENTER rows of a pair in the
\* trade log there is an EXIT row.
C1_OnePosition ==
    /\ [](\A i \in 1..Len(runtimes) :
             /\ Len(runtimes[i].engine.pos) <= 1
             /\ EnterExitAlternate(TradesOf(PairName(runtimes[i].cfg))))
    /\ [][\A i \in 1..Len(runtimes) :
             Emitted(i, "ENTER") => /\ IsNone(runtimes[i].engine.pos)
                                    /\ ~IsNone(runtimes'[i].engine.pos)]_vars

\* a pair entered, exited and entered again
C1_Witness ==
    /\ Len(trades) >= 3
    /\ trades[1].event = "ENTER"
    /\ trades[2].event = "EXIT"
    /\ trades[3].event = "ENTER"
    /\ ~IsNone(runtimes[1].engine.pos)

\* the arguments and result of the latest direct on_tick call
LastIn == eng_in[Len(eng_in)]

LastOut == eng_out[Len(eng_out)]

NeverReaches(e) ==
    \A k \in 1..Len(eng_in) : ~ZGe(eng_in[k].z, e) /\ ~ZLe(eng_in[k].z, RatNeg(e))

\* C2: from Flat with enter_z > 0, on_tick opens SHORT_SPREAD and returns ENTER
\* iff z >= enter_z, opens LONG_SPREAD and returns ENTER iff z <= -enter_z, and
\* otherwise returns HOLD and stays Flat; a z sequence that never reaches
\* +-enter_z yields only HOLD and no position.
C2_EnterFromFlat ==
    (Len(eng_in) > 0 /\ eng.enter_z.num > 0) =>
       /\ IsNone(LastIn.pos) =>
             /\ ZGe(LastIn.z, eng.enter_z)
                  <=> /\ LastOut.status = "ENTER"
                      /\ LastOut.side = "SHORT_SPREAD"
                      /\ eng.pos = Some(Position("SHORT_SPREAD", LastIn.z, LastIn.spread))
             /\ ZLe(LastIn.z, RatNeg(eng.enter_z))
                  <=> /\ LastOut.status = "ENTER"
                      /\ LastOut.side = "LONG_SPREAD"
                      /\ eng.pos = Some(Position("LONG_SPREAD", LastIn.z, LastIn.spread))
             /\ (~ZGe(LastIn.z, eng.enter_z) /\ ~ZLe(LastIn.z, RatNeg(eng.enter_z)))
                  <=> (LastOut.status = "HOLD" /\ IsNone(eng.pos))
       /\ NeverReaches(eng.enter_z) =>
             /\ \A k \in 1..Len(eng_out) : eng_out[k].status = "HOLD"
             /\ IsNone(eng.pos)

\* a Flat engine was ticked with z exactly at -enter_z and went LONG_SPREAD,
\* after a tick below the threshold that held
C2_Witness ==
    /\ Len(eng_in) = 2
    /\ eng.enter_z = Rat(2, 1)
    /\ eng_in[1].z = ZVal(1, 1)
    /\ eng_out[1].status = "HOLD"
    /\ eng_in[2].z = ZVal(-2, 1)
    /\ eng_out[2].status = "ENTER"
    /\ ~IsNone(eng.pos)

\* index of the latest ENTER among the first n direct calls
LastEnter(n) ==
    CHOOSE k \in 1..n : /\ eng_out[k].status = "ENTER"
                        /\ \A m \in (k + 1)..n : eng_out[m].status # "ENTER"

\* C3: from Holding, on_tick closes and returns EXIT iff |z| <= exit_band, with
\* P&L exit_spread - entry_spread (LONG_SPREAD) or entry_spread - exit_spread
\* (SHORT_SPREAD), entry_spread being the spread given to the ENTER call;
\* otherwise it returns IN_POSITION and keeps the position.  With enter_z = 2.0
\* and exit_band = 0.2, z = [2.5, 1.0, 0.1] yields ENTER(SHORT_SPREAD),
\* IN_POSITION, EXIT.
C3_ExitFromHolding ==
    /\ (Len(eng_in) > 0 /\ ~IsNone(LastIn.pos)) =>
          LET n == Len(eng_in)
              entry == eng_in[LastEnter(n - 1)]
              side == eng_out[LastEnter(n - 1)].side
          IN  IF ZLe(ZAbs(LastIn.z), eng.exit_band)
              THEN /\ LastOut.status = "EXIT"
                   /\ LastOut.side = side
                   /\ IsNone(eng.pos)
                   /\ LastOut.pnl = Some(IF side = "LONG_SPREAD"
                                         THEN LastIn.spread - entry.spread
                                         ELSE entry.spread - LastIn.spread)
              ELSE /\ LastOut.status = "IN_POSITION"
                   /\ LastOut.side = side
                   /\ IsNone(LastOut.pnl)
                   /\ eng.pos = LastIn.pos
    /\ (/\ Len(eng_in) = 3
        /\ eng.enter_z = Rat(2, 1)
        /\ eng.exit_band = Rat(1, 5)
        /\ eng_in[1].z = ZVal(5, 4)
        /\ eng_in[2].z = ZVal(1, 1)
        /\ eng_in[3].z = ZVal(1, 100)) =>
          /\ eng_out[1].status = "ENTER" /\ eng_out[1].side = "SHORT_SPREAD"
          /\ eng_out[2].status = "IN_POSITION"
          /\ eng_out[3].status = "EXIT"
          /\ eng_out[3].pnl = Some(eng_in[1].spread - eng_in[3].spread)

\* the z sequence 2.5, 1.0, 0.1 was fed with different entry and exit spreads
C3_Witness ==
    /\ Len(eng_in) = 3
    /\ eng.enter_z = Rat(2, 1)
    /\ eng_in[1].z = ZVal(5, 4)
    /\ eng_in[2].z = ZVal(1, 1)
    /\ eng_in[3].z = ZVal(1, 100)
    /\ eng_in[1].spread = 3
    /\ eng_in[3].spread = 1
    /\ eng_out[3].status = "EXIT"

\* the snapshot runtime rt built in its latest completed step
Snap(rt) == Get(rt.last_state)

\* |z| >= enter_z for an optional z that is present
Qualifies(oz, rt) == ~IsNone(oz) /\ ZGe(ZAbs(Get(oz)), rt.engine.enter_z)

\* the sigma floor is enabled and the estimator's last std is below it
SigmaBelow(rt) == rt.sigma_min.num > 0 /\ StdBelow(rt.z.last_std, rt.sigma_min)

NoEvaluation == {"MT5_ERR", "NO_TICK", "STALE", "QUIET", "WARMING"}

PrevEvaluation(k) ==
    IF \E j \in 1..(k - 1) : ~IsNone(g_hist[j].z)
    THEN CHOOSE j \in 1..(k - 1) :
            /\ ~IsNone(g_hist[j].z)
            /\ \A m \in (j + 1)..(k - 1) : IsNone(g_hist[m].z)
    ELSE 0

\* C5: under IncreasingConfirm an ENTER needs |z| >= enter_z and |z| strictly
\* greater than the |z| of the pair's immediately preceding evaluation, the
\* previous |z| being the only gate state kept.
C5_IncreasingConfirm ==
    g_rt.confirm_mode = "increasing" =>
       /\ \A k \in 1..Len(g_hist) :
             g_hist[k].signal = "ENTER" =>
                /\ Qualifies(g_hist[k].z, g_rt)
                /\ PrevEvaluation(k) # 0
                /\ ZGt(ZAbs(Get(g_hist[k].z)), ZAbs(Get(g_hist[PrevEvaluation(k)].z)))
       /\ g_rt.confirm_count = 0

\* C6: with sigma_min > 0, a cycle of a Flat pair whose estimator's last std is
\* below sigma_min emits no ENTER and opens nothing, in any confirm mode; and a
\* cycle that the confirm mode suppresses (ConsecutiveConfirm with no earlier
\* confirmation, IncreasingConfirm with no previous |z| or one not exceeded)
\* emits no ENTER whatever the std.
C6_EitherSuppressionBlocks ==
    [][\A i \in 1..Len(runtimes) :
          (StepRan(i) /\ IsNone(runtimes[i].engine.pos)) =>
             /\ SigmaBelow(runtimes'[i]) =>
                   /\ last_res'.res.status # "ENTER"
                   /\ IsNone(runtimes'[i].engine.pos)
             /\ (runtimes[i].confirm_mode = "consecutive" /\ runtimes[i].confirm_count = 0) =>
                   /\ last_res'.res.status # "ENTER"
                   /\ IsNone(runtimes'[i].engine.pos)
             /\ (/\ runtimes[i].confirm_mode = "increasing"
                 /\ \/ IsNone(runtimes[i].prev_abs_z)
                    \/ IsNone(last_res'.res.z)
                    \/ ~ZGt(ZAbs(Get(last_res'.res.z)), Get(runtimes[i].prev_abs_z)))
                   => /\ last_res'.res.status # "ENTER"
                      /\ IsNone(runtimes'[i].engine.pos)]_vars

\* a Flat pair was held by the sigma floor alone in a cycle with |z| >= enter_z,
\* with no confirm mode to suppress it
C6_Witness ==
    /\ runtimes[1].confirm_mode = "none"
    /\ ~IsNone(runtimes[1].last_state)
    /\ Snap(runtimes[1]).signal = "HOLD"
    /\ Qualifies(Snap(runtimes[1]).z, runtimes[1])
    /\ SigmaBelow(runtimes[1])
    /\ last_res.rt = 1

\* C7: after a cycle in which a pair emitted ENTER or EXIT its entry-gate state
\* is empty, whatever the confirm mode.
C7_GateResetOnEnterExit ==
    \A i \in 1..Len(runtimes) :
        (~IsNone(runtimes[i].last_state) /\ Snap(runtimes[i]).signal \in {"ENTER", "EXIT"})
           => /\ runtimes[i].confirm_count = 0
              /\ IsNone(runtimes[i].prev_abs_z)

\* under IncreasingConfirm a pair entered, which takes a recorded previous |z|
C7_Witness ==
    /\ runtimes[1].confirm_mode = "increasing"
    /\ ~IsNone(runtimes[1].last_state)
    /\ Snap(runtimes[1]).signal = "ENTER"
    /\ IsNone(runtimes[1].prev_abs_z)

\* the part of a runtime that a skipped cycle must not touch
Core(rt) == <<rt.z, rt.engine, rt.confirm_count, rt.prev_abs_z>>

\* C8: a cycle in which a leg has no price, a leg is STALE, or both legs are
\* same_tick leaves the rolling window, the last mean and std, the position and
\* the entry-gate state as they were.
C8_SkippedCycleFrame ==
    [][\A i \in 1..Len(runtimes) :
          (StepRan(i) /\ ~last_res'.raised /\ Snap(runtimes'[i]).signal # "MT5_ERR") =>
             ((\/ IsNone(Snap(runtimes'[i]).pa)
               \/ IsNone(Snap(runtimes'[i]).pb)
               \/ Snap(runtimes'[i]).signal = "STALE"
               \/ Snap(runtimes'[i]).sameA /\ Snap(runtimes'[i]).sameB)
                 => Core(runtimes'[i]) = Core(runtimes[i]))]_vars

\* a pair went idle with an open position and a recorded window
C8_Witness ==
    /\ ~IsNone(runtimes[1].last_state)
    /\ Snap(runtimes[1]).signal = "QUIET"
    /\ ~IsNone(runtimes[1].engine.pos)
    /\ Len(runtimes[1].z.values) >= 2
    /\ last_res.rt = 1

\* C9: the results and state of a pair are the same whether or not other pairs,
\* one of them sharing a symbol with it, are stepped in the same cycles.
C9_Noninterference ==
    solo.on =>
       /\ runtimes[Len(runtimes)].last_state = solo.rt.last_state
       /\ runtimes[Len(runtimes)].engine.pos = solo.rt.engine.pos
       /\ runtimes[Len(runtimes)].z = solo.rt.z

\* C10: a failure while one pair is evaluated never ends the loop: the other
\* pairs are stepped, the cycle is published and the next cycle starts.
C10_FailureIsolated == pc = "loop" /\ connected

\* the polls of obs, up to the k-th, in which the symbol of the k-th got a tick
SameLeg(k) ==
    {j \in 1..k : obs[j].symbol = obs[k].symbol /\ ~IsNone(obs[j].id)}

\* the poll before j in which that symbol got a tick (0: none)
PrevPoll(k, j) ==
    IF \E i \in SameLeg(k) : i < j
    THEN CHOOSE i \in SameLeg(k) : i < j /\ \A m \in SameLeg(k) : m < j => m <= i
    ELSE 0

\* j is a poll in which the tick identity was first seen to differ
IdentityChanged(k, j) ==
    PrevPoll(k, j) = 0 \/ obs[PrevPoll(k, j)].id # obs[j].id

\* the latest poll, up to the k-th, in which the identity changed
LastChange(k) ==
    CHOOSE j \in SameLeg(k) :
        /\ IdentityChanged(k, j)
        /\ \A m \in SameLeg(k) : (m > j) => ~IdentityChanged(k, m)

\* C11: a leg that got a tick is STALE iff the wall-clock time since the poll in
\* which its tick identity was last seen to change exceeds stale_seconds, however
\* many polls lie in between; in the poll that first sees a new identity the age
\* is 0 and the leg is OK.
C11_StaleIffIdentityOld ==
    \A k \in 1..Len(obs) :
        ~IsNone(obs[k].id) =>
           /\ obs[k].age = Some(obs[k].t - obs[LastChange(k)].t)
           /\ obs[k].status = "STALE" <=> obs[k].t - obs[LastChange(k)].t > StaleSeconds
           /\ IdentityChanged(k, k) => obs[k].age = Some(0) /\ obs[k].status = "OK"

\* a leg went STALE two polls after its identity was last seen to change, and
\* was OK in the poll between
C11_Witness ==
    /\ Len(obs) = 3
    /\ \A k \in 1..3 : obs[k].symbol = "X" /\ ~IsNone(obs[k].id)
    /\ obs[1].id = obs[3].id /\ obs[2].id = obs[3].id
    /\ obs[2].status = "OK"
    /\ obs[3].status = "STALE"

\* the leg whose symbol is sym is STALE after a step made at time now
LegStale(rt, sym) ==
    /\ ~IsNone(LAST_SEEN_LOCAL'[sym])
    /\ now - Get(LAST_SEEN_LOCAL'[sym]) > rt.stale_seconds

\* both legs of the pair were seen, before this step, with the tick identities
\* own_msc, and this step got ticks with those identities again
UnchangedSinceOwnObservation(rt, own_msc) ==
    \A sym \in {rt.cfg.a, rt.cfg.b} :
        /\ ~IsNone(own_msc[sym])
        /\ ~IsNone(market'[sym])
        /\ Get(market'[sym]).time_msc = Get(own_msc[sym])

\* what a step that produced a snapshot reports about idleness and staleness,
\* the pair's own earlier observations left aside
IdleStaleReport(i) ==
    LET rt == runtimes[i]
        sn == Snap(runtimes'[i])
    IN  /\ sn.signal = "QUIET" => sn.sameA /\ sn.sameB
        /\ sn.signal = "STALE" <=>
              /\ ~IsNone(sn.pa) /\ ~IsNone(sn.pb)
              /\ LegStale(rt, rt.cfg.a) \/ LegStale(rt, rt.cfg.b)
        /\ sn.signal \in {"QUIET", "STALE"} =>
              sn.spread = Some(Log(Get(sn.pa)) - (rt.cfg.alpha + rt.cfg.beta * Log(Get(sn.pb))))

\* C12: a pair is reported idle only if both legs are same_tick, that is, the
\* tick identity of each leg is unchanged since that pair's previous observation
\* of it; it is reported stale iff both legs have a price and a leg is STALE;
\* idle and stale snapshots carry the spread of the current prices.
C12_IdleBothSameStaleEither ==
    [][\A i \in 1..Len(runtimes) :
          (StepRan(i) /\ ~last_res'.raised /\ Snap(runtimes'[i]).signal # "MT5_ERR") =>
             /\ IdleStaleReport(i)
             /\ (solo.on /\ i = Len(runtimes) /\ Snap(runtimes'[i]).signal = "QUIET")
                   => UnchangedSinceOwnObservation(runtimes[i], solo.msc)]_vars

\* the inputs the window must hold after the k-th update: the last min(k, W)
LastInputs(k) ==
    SubSeq(rz_in, k - Min(k, rz.window) + 1, k)

\* sum over the sequence vals of (m*v - total)^2
RECURSIVE SumDev(_, _, _)
SumDev(vals, m, total) ==
    IF vals = <<>> THEN 0
    ELSE (m * Head(vals) - total) * (m * Head(vals) - total)
         + SumDev(Tail(vals), m, total)

\* z = (x - mean) / std for the last element x of vals, mean = sum(vals)/m and
\* std = sqrt(sum((v - mean)^2) / m), m = Len(vals): with d = sum((m*v - S)^2),
\* std^2 = d / m^3 and (x - mean)^2 / std^2 = (m*x - S)^2 * m / d
IsZScoreOf(z, vals) ==
    LET m == Len(vals)
        x == vals[m]
        d == SumDev(vals, m, SumSeq(vals))
    IN  /\ d > 0
        /\ (z.n > 0) = (m * x - SumSeq(vals) > 0)
        /\ (z.n < 0) = (m * x - SumSeq(vals) < 0)
        /\ z.n * z.n * d = (m * x - SumSeq(vals)) * (m * x - SumSeq(vals)) * m * z.q

\* C13: with warmup <= window, update returns not-ready before the warmup-th
\* input, and every value it returns is (x - mean)/std with the mean and the
\* population std taken over exactly the last min(count, W) inputs, x included.
C13_ZOverLastW ==
    rz.warmup <= rz.window =>
       \A k \in 1..Len(rz_in) :
          /\ k < rz.warmup => IsNone(rz_out[k])
          /\ ~IsNone(rz_out[k]) => IsZScoreOf(Get(rz_out[k]), LastInputs(k))

\* a full window of 3 has slid once and a z was returned for 0 over [1, 3, 0]
C13_Witness ==
    /\ rz.window = 3 /\ rz.warmup = 2
    /\ rz_in = <<0, 1, 3, 0>>
    /\ ~IsNone(rz_out[4])
    /\ Get(rz_out[4]).n < 0

\* C16: after k updates the window holds exactly the most recent min(k, W)
\* inputs in insertion order, so never more than W; and last_mean and last_std,
\* whenever set, are the mean s/n and the population std sqrt(q)/n of the inputs
\* the window must hold.
C16_WindowIsLastInputs ==
    LET k    == Len(rz_in)
        held == LastInputs(k)
        m    == Len(held)
    IN  /\ rz.values = held
        /\ Len(rz.values) <= rz.window
        /\ ~IsNone(rz.last_mean) =>
              Get(rz.last_mean).s * m = SumSeq(held) * Get(rz.last_mean).n
        /\ ~IsNone(rz.last_std) =>
              /\ Get(rz.last_std).q >= 0
              /\ Get(rz.last_std).q * m * m * m
                   = SumDev(held, m, SumSeq(held)) * Get(rz.last_std).n * Get(rz.last_std).n
        /\ IsNone(rz.last_mean) = IsNone(rz.last_std)

\* the oldest input was evicted from a full window, which then went flat with
\* mean 1 and std 0
C16_Witness ==
    /\ rz.window = 2
    /\ rz_in = <<3, 1, 1>>
    /\ rz.values = <<1, 1>>
    /\ ~IsNone(rz.last_std)
    /\ Get(rz.last_std).q = 0
    /\ Get(rz.last_mean).s = 2

\* C14: when every update is given the same value, every update returns
\* not-ready, whatever the window and warmup and however many updates are made.
C14_ConstantNeverReady ==
    (\A i, j \in 1..Len(rz_in) : rz_in[i] = rz_in[j]) =>
       \A k \in 1..Len(rz_out) : IsNone(rz_out[k])

\* C15: with alpha=0, beta=1, window=5, warmup=5, enter_z=2.0, exit_band=0.2 and
\* live prices whose log-spreads are 0,0,0,0,0,10, step reports not-ready in each
\* of the first 5 cycles (cycle counts from 0) and in the 6th a z computed over
\* the window [0,0,0,0,10]: mean 2 (10/5), std 4 (sqrt(400)/5), z = 2.
C15_EndToEnd ==
    [][(/\ StepRan(1)
        /\ cycle <= 5
        /\ Len(runtimes[1].z.values) = cycle
        /\ \A k \in 1..cycle : runtimes[1].z.values[k] = 0
        /\ Snap(runtimes'[1]).spread = Some(IF cycle < 5 THEN 0 ELSE 10))
          => IF cycle < 5
             THEN /\ Snap(runtimes'[1]).signal = "WARMING"
                  /\ Snap(runtimes'[1]).phase = "warming"
                  /\ IsNone(Snap(runtimes'[1]).z)
             ELSE /\ runtimes'[1].z.values = <<0, 0, 0, 0, 10>>
                  /\ runtimes'[1].z.last_mean = Some([s |-> 10, n |-> 5])
                  /\ runtimes'[1].z.last_std = Some([q |-> 400, n |-> 5])
                  /\ ~IsNone(Snap(runtimes'[1]).z)
                  /\ ZGe(Get(Snap(runtimes'[1]).z), Rat(2, 1))
                  /\ ZLe(Get(Snap(runtimes'[1]).z), Rat(2, 1))]_vars

\* the 6th cycle of that run has been stepped and reported a z
C15_Witness ==
    /\ cycle = 5
    /\ idx = 2
    /\ runtimes[1].z.window = 5
    /\ runtimes[1].z.values = <<0, 0, 0, 0, 10>>
    /\ ~IsNone(runtimes[1].last_state)
    /\ ~IsNone(Snap(runtimes[1]).z)
    /\ Snap(runtimes[1]).signal = "ENTER"
    /\ trades = <<>> \/ trades[1].event = "ENTER"

----------------------------------------------------------------------------
(* The scheduler's cycle *)

\* this step of the for loop ran rt.step() for runtime idx
StepsPair == pc = "loop" /\ (idx' = idx + 1 \/ pc' = "crashed")

\* this step ends a cycle: the documents are written
EndsCycle == cycle' = cycle + 1

\* runtime j has a snapshot taken at time t
StampedAt(rts, j, t) ==
    /\ ~IsNone(rts[j].last_state)
    /\ Get(rts[j].last_state).last_update_ts = t

\* the pairs before idx have been stepped in this cycle, idx and the pairs
\* after it have not; the step of idx leaves a snapshot of this cycle and
\* appends one entry made from it to that pair's buffer and to no other
StepInOrder ==
    StepsPair =>
      /\ idx \in 1..Len(runtimes)
      /\ \A j \in 1..Len(runtimes) :
            IF j < idx THEN StampedAt(runtimes, j, now)
            ELSE IsNone(runtimes[j].last_state)
                 \/ Get(runtimes[j].last_state).last_update_ts < now
      /\ ~last_res'.raised =>
            LET pair == PairName(runtimes[idx].cfg)
                old == IF pair \in DOMAIN PAIR_HISTORY THEN PAIR_HISTORY[pair] ELSE <<>>
            IN  /\ StampedAt(runtimes', idx, now)
                /\ DOMAIN PAIR_HISTORY' = DOMAIN PAIR_HISTORY \cup {pair}
                /\ PAIR_HISTORY'[pair] =
                      Append(old, HistoryEntry(Get(runtimes'[idx].last_state)))
                /\ \A p \in DOMAIN PAIR_HISTORY \ {pair} :
                      PAIR_HISTORY'[p] = PAIR_HISTORY[p]

\* the documents are written only at the end of a cycle, after every pair was
\* stepped: the state document lists one snapshot per configured pair, in
\* configured order, each taken in this cycle, and the history document holds
\* every pair's buffer, whose last entry is this cycle's
PublishAfterAll ==
    /\ EndsCycle =>
          /\ idx = Len(runtimes) + 1
          /\ ~IsNone(monitor_state') /\ ~IsNone(monitor_history')
          /\ Get(monitor_state').ts = now /\ Get(monitor_history').ts = now
          /\ Len(Get(monitor_state').pairs) = Len(runtimes)
          /\ \A j \in 1..Len(runtimes) :
                LET pair == PairName(runtimes[j].cfg)
                    buf == Get(monitor_history').history[pair]
                IN  /\ Get(monitor_state').pairs[j] =
                          [pair |-> pair, last_update_ts |-> now]
                    /\ StampedAt(runtimes, j, now)
                    /\ Len(buf) = cycle + 1
                    /\ buf[Len(buf)] = HistoryEntry(Get(runtimes[j].last_state))
    /\ ~EndsCycle => UNCHANGED <<monitor_state, monitor_history>>

\* a cycle that has begun goes on to its next pair
CycleGoesOn == StepsPair => pc' = "loop"

\* C17: in every cycle each pair is stepped exactly once, in configured
\* order, with one history entry made from that cycle's snapshot, and only
\* after all pairs the state document (one snapshot per configured pair, of
\* this cycle, in order) and then the history document are written.
C17_EveryCycleStepsAllThenPublishes ==
    [][StepInOrder /\ PublishAfterAll /\ CycleGoesOn]_vars

----------------------------------------------------------------------------
(* The trade log *)

\* the outcome of the step of runtime idx that has just run
Returned_res == last_res'.res

\* the step returned an ENTER or EXIT event and the logger's append succeeded
EventLogged ==
    /\ StepsPair
    /\ ~last_res'.raised
    /\ Returned_res.status \in {"ENTER", "EXIT"}
    /\ pc' = "loop"

\* C18: the trade log gains exactly one record per ENTER or EXIT returned by a
\* step (when the append to the file succeeds) and none for any other outcome
\* or step of the loop; the record's P&L is present iff the event is EXIT;
\* records already written stay as they are.
C18_TradeLogPerEvent ==
    [][ /\ EventLogged =>
             /\ Len(trades') = Len(trades) + 1
             /\ LET row == trades'[Len(trades')]
                IN  /\ row.pair = PairName(runtimes[idx].cfg)
                    /\ row.event = Returned_res.status
                    /\ row.side = Returned_res.side
                    /\ row.z = Returned_res.z
                    /\ row.spread = Returned_res.spread
                    /\ row.event = Get(runtimes'[idx].last_state).signal
                    /\ ~IsNone(row.pnl_spread) <=> row.event = "EXIT"
        /\ ~EventLogged => Len(trades') = Len(trades)
        /\ \A k \in 1..Len(trades) : trades'[k] = trades[k]
        /\ StepsPair /\ ~last_res'.raised /\ Len(trades') = Len(trades) /\ pc' = "loop"
              => Get(runtimes'[idx].last_state).signal \notin {"ENTER", "EXIT"}
      ]_vars

\* an ENTER and later an EXIT have been logged, the EXIT by the last step
C18_Witness ==
    /\ Len(trades) >= 2
    /\ trades[Len(trades) - 1].event = "ENTER"
    /\ trades[Len(trades)].event = "EXIT"
    /\ ~IsNone(trades[Len(trades)].pnl_spread)
    /\ last_res.res.status = "EXIT"
    /\ pc = "loop"

----------------------------------------------------------------------------
(* The published document and its readers *)

\* C19: whatever the interleaving of the writer's steps with a read, the
\* reader ends with a complete document: the one that was published when it
\* opened the file or a later one, never a partly written one.
C19_ReaderSeesCompleteDocument ==
    rd.pc = "done" =>
        /\ DocOf(rd.buf) # 0
        /\ DocOf(rd.buf) >= rd.from
        /\ DocOf(rd.buf) <= wr.doc
        /\ rd.from # 0

\* a read that began under document 1 returns it complete although document 2
\* was written and published in the meantime
C19_Witness ==
    /\ rd.pc = "done"
    /\ DocOf(rd.buf) = 1
    /\ PublishedDoc(fs) = 2
    /\ wr.pc = "idle"

----------------------------------------------------------------------------
(* Termination *)

\* a pair has been stepped in the cycle that now is in
CycleInFlight == \E j \in 1..Len(runtimes) : StampedAt(runtimes, j, now)

\* C20: when a KeyboardInterrupt has stopped the loop while a cycle was in
\* flight, every pair has been evaluated in that cycle and the cycle's state
\* and history documents have been written, and only then is the price source
\* disconnected.
C20_InterruptedCycleFinishes ==
    pc = "stopped" /\ CycleInFlight =>
        /\ \A j \in 1..Len(runtimes) : StampedAt(runtimes, j, now)
        /\ ~IsNone(monitor_state) /\ Get(monitor_state).ts = now
        /\ ~IsNone(monitor_history) /\ Get(monitor_history).ts = now
        /\ ~connected

----------------------------------------------------------------------------
(* The history buffers *)

\* the entries appended for the pair at position j so far: one per cycle
Appended(j) == cycle + (IF j < idx THEN 1 ELSE 0)

\* C21: a pair's history buffer never holds more than HISTORY_MAXLEN entries,
\* and after k appends it holds the last min(k, HISTORY_MAXLEN) of them, oldest
\* first (the entry of cycle c carries the time stamp c).
C21_HistoryBounded ==
    \A j \in 1..Len(runtimes) :
        LET pair == PairName(runtimes[j].cfg)
            k == Appended(j)
        IN  IF k = 0 THEN pair \notin DOMAIN PAIR_HISTORY
            ELSE /\ pair \in DOMAIN PAIR_HISTORY
                 /\ Len(PAIR_HISTORY[pair]) <= HISTORY_MAXLEN
                 /\ Len(PAIR_HISTORY[pair]) = Min(k, HISTORY_MAXLEN)
                 /\ \A i \in 1..Len(PAIR_HISTORY[pair]) :
                       PAIR_HISTORY[pair][i].ts = k - Len(PAIR_HISTORY[pair]) + i - 1

\* both buffers are full and have evicted their oldest entries
C21_Witness ==
    \A j \in 1..Len(runtimes) :
        /\ Appended(j) > HISTORY_MAXLEN
        /\ Len(PAIR_HISTORY[PairName(runtimes[j].cfg)]) = HISTORY_MAXLEN
        /\ PAIR_HISTORY[PairName(runtimes[j].cfg)][1].ts > 0

----------------------------------------------------------------------------
(* Wake events *)

\* the snapshot runtime idx had before this step, and the one it has after it
SnapBefore == Get(runtimes[idx].last_state)

SnapAfter == Get(runtimes'[idx].last_state)

\* this step is the cycle after an idle one, is not idle itself, and its spread
\* is not the spread of the idle cycle
LeavesIdle ==
    /\ StepsPair
    /\ ~last_res'.raised
    /\ ~IsNone(runtimes[idx].last_state)
    /\ SnapBefore.status = "idle"
    /\ ~IsNone(SnapAfter.spread)
    /\ ~(SnapAfter.sameA /\ SnapAfter.sameB)
    /\ SnapAfter.spread # SnapBefore.spread

\* what a step leaves behind, without the wake flag and the two fields that
\* exist only to compute it
WakeFree(r) ==
    [z |-> r.self.z, engine |-> r.self.engine, confirm_count |-> r.self.confirm_count,
     prev_abs_z |-> r.self.prev_abs_z, res |-> r.res, raised |-> r.raised,
     msc |-> r.msc, seen |-> r.seen,
     state |-> IF IsNone(r.self.last_state) THEN None
               ELSE Some([Get(r.self.last_state) EXCEPT !.wake = FALSE])]

\* runtime rt with other values in the fields that the wake detection keeps
WakeVariants(rt) ==
    {[rt EXCEPT !.was_idle = w, !.last_spread = l, !.wake_line = ~w] :
        w \in BOOLEAN, l \in {None, Some(0), Some(1)}}

\* whatever ticks arrive next, the step does the same to the window, the gate
\* counters, the position and the reported outcome for every value of the wake
\* bookkeeping
WakeHasNoEffect ==
    \A i \in 1..Len(runtimes) :
      \A ta \in TicksAt(runtimes[i].cfg.a, now, market[runtimes[i].cfg.a]) :
        \A tb \in TicksB(i, ta) :
          \A ref \in {WakeFree(step(runtimes[i], ta, tb, "", now,
                                    LAST_TICK_MSC, LAST_SEEN_LOCAL))} :
            \A v \in WakeVariants(runtimes[i]) :
               WakeFree(step(v, ta, tb, "", now, LAST_TICK_MSC, LAST_SEEN_LOCAL)) = ref

\* C22 as stated: every step that leaves idle with a changed spread is flagged
\* wake, and the wake bookkeeping has no effect on the window, the position or
\* the decision.
C22_WakeOnLeavingIdle ==
    [][(LeavesIdle => SnapAfter.wake) /\ WakeHasNoEffect]_vars

\* C22 amended: every step that leaves idle with a changed spread while no leg
\* is stale is flagged wake; a step that leaves idle with a stale leg is
\* reported STALE without the flag; the wake bookkeeping has no effect on the
\* window, the position or the decision.
C22_WakeOnLeavingIdleNotStale ==
    [][ /\ LeavesIdle /\ SnapAfter.status # "stale" => SnapAfter.wake
        /\ LeavesIdle /\ SnapAfter.status = "stale" => ~SnapAfter.wake
        /\ WakeHasNoEffect ]_vars

\* a cycle that left idle with a new spread, was evaluated and carries the flag
C22_Witness ==
    /\ pc = "loop"
    /\ idx = 2
    /\ ~IsNone(runtimes[1].last_state)
    /\ Get(runtimes[1].last_state).wake
    /\ Get(runtimes[1].last_state).status \notin {"idle", "stale", "no_tick", "mt5_err"}
    /\ runtimes[1].wake_line

----------------------------------------------------------------------------
(* Calibration *)

\* C24: each calibration entry point raises and returns no CalibResult when
\* the aligned sample count is below 50, and a CalibResult it returns has n
\* equal to the aligned sample count, which is then 50 or more.
C24_MinimumSample ==
    ~IsNone(cal) =>
        LET c == Get(cal)
        IN  /\ c.out.raised <=> IsNone(c.out.result)
            /\ c.count < 50 => c.out.raised
            /\ ~c.out.raised => /\ c.count >= 50
                                /\ Get(c.out.result).n = c.count

\* a calibration of series of 51 and 50 closes returned a result for the 50
\* aligned samples
C24_Witness ==
    /\ ~IsNone(cal)
    /\ Get(cal).fn = "series"
    /\ Len(Get(Get(cal).a)) = 51
    /\ Len(Get(Get(cal).b)) = 50
    /\ ~Get(cal).out.raised
    /\ Get(Get(cal).out.result).n = 50

\* the replay runs the bar after rp.idx with recalibration enabled
RecalibratesBar ==
    /\ ~IsNone(rp)
    /\ Get(rp).pc = "run"
    /\ Get(rp).self.recalibrate
    /\ ~IsNone(rp')
    /\ Get(rp').idx = Get(rp).idx + 1

\* C23: with recalibration enabled, a bar whose recalibration raises (an error
\* or fewer than 50 bars) or gives a correlation below min_corr changes neither
\* alpha, beta, corr, the rolling window, the engine's position nor the open
\* trade (nor the log); a recalibration that gives a correlation of at least
\* min_corr stores its alpha, beta and corr; and no bar replaces one of the
\* three without the other two.
C23_FailedRecalibrationSkipsBar ==
    [][RecalibratesBar =>
        LET old == Get(rp).self
            new == Get(rp').self
            r == calibrate_up_to(old.bars, Get(rp').idx)
            kept == /\ new.alpha = old.alpha
                    /\ new.beta = old.beta
                    /\ new.corr = old.corr
            stored == /\ ~r.raised
                      /\ new.alpha = Some(Get(r.result).alpha)
                      /\ new.beta = Some(Get(r.result).beta)
                      /\ new.corr = Some(Get(r.result).corr)
        IN  /\ kept \/ stored
            /\ (r.raised \/ ~(isnan(Get(r.result).corr) \/ ZGe(Get(r.result).corr, old.min_corr)))
                  => /\ kept
                     /\ new.z_score = old.z_score
                     /\ new.signal = old.signal
                     /\ new.trade = old.trade
                     /\ Get(rp').log = Get(rp).log
            /\ (~r.raised /\ ~isnan(Get(r.result).corr)
                          /\ ZGe(Get(r.result).corr, old.min_corr)) => stored]_vars

\* a bar was skipped for a correlation below min_corr while a trade was open,
\* and a later bar recalibrated: the stored correlation is that of all the
\* bars run so far
C23_Witness ==
    /\ ~IsNone(rp)
    /\ Get(rp).pc = "run"
    /\ Get(rp).self.recalibrate
    /\ Get(rp).idx > MIN_CALIBRATION_BARS + 1
    /\ ~IsNone(Get(rp).self.trade)
    /\ Get(Get(rp).self.trade).entry_dt < Get(rp).idx - 1
    /\ \E k \in MIN_CALIBRATION_BARS..(Get(rp).idx - 1) :
          /\ k > Get(Get(rp).self.trade).entry_dt
          /\ LET r == calibrate_up_to(Get(rp).self.bars, k)
             IN  ~r.raised /\ CorrLess(Get(r.result).corr, ReplayMinCorr)
    /\ LET r == calibrate_up_to(Get(rp).self.bars, Get(rp).idx)
       IN  ~r.raised /\ Get(rp).self.corr = Some(Get(r.result).corr)

\* C25: PairReplay.initialize rejects a calibration result exactly when the
\* absolute value of its correlation is below min_corr, so that a correlation
\* of -min_corr or less is accepted like one of min_corr or more.
C25_RejectsOnAbsoluteCorrelation ==
    (~IsNone(rp) /\ Get(rp).pc \in {"run", "skipped"}) =>
        LET r == calibrate_up_to(Get(rp).self.bars, Len(Get(rp).self.bars))
        IN  (~r.raised /\ ~isnan(Get(r.result).corr)) =>
                (Get(rp).pc = "skipped"
                    <=> ~ZGe(ZAbs(Get(r.result).corr), Get(rp).self.min_corr))

\* C28: a NaN correlation is taken as 0.0 before it is compared with min_corr
\* or stored: the replay never holds a NaN correlation, and a calibration
\* whose correlation is NaN is rejected by initialize.
C28_NaNNeverStored ==
    ~IsNone(rp) =>
        /\ ~IsNone(Get(rp).self.corr) => ~isnan(Get(Get(rp).self.corr))
        /\ Get(rp).pc = "run" =>
              LET r == calibrate_up_to(Get(rp).self.bars, Len(Get(rp).self.bars))
              IN  ~r.raised /\ ~isnan(Get(r.result).corr)

----------------------------------------------------------------------------
(* load_top_pairs *)

\* the calibration of default pair p on the terminal load_top_pairs met
DefaultCalibration(p) ==
    calibrate_pair_from_mt5(Get(ltp).closes[p.a], Get(ltp).closes[p.b])

\* C26: load_top_pairs, finding neither a ranked list nor a cache, never
\* returns a default pair whose calibration raised (unavailable symbol,
\* insufficient sample, error) or whose correlation was below 0.70.
C26_FailedPairNeverReturned ==
    (/\ ~IsNone(ltp)
     /\ Get(ltp).ranked \in BarrenFiles
     /\ Get(ltp).cache \in BarrenFiles
     /\ ~Get(ltp).out.raised) =>
        \A k \in 1..Len(Get(Get(ltp).out.result)) :
            LET r == DefaultCalibration(Get(Get(ltp).out.result)[k])
            IN  ~r.raised /\ ~CorrLess(Get(r.result).corr, DEFAULT_CAL_MIN_CORR)

\* the pair names a file yields: those of its first top_n rows with a slash
RECURSIVE NamesIn(_)
NamesIn(rows) ==
    IF rows = <<>> THEN <<>>
    ELSE IF Len(Head(rows).pair) < 2 THEN NamesIn(Tail(rows))
    ELSE <<Head(rows).pair>> \o NamesIn(Tail(rows))

Yield(file, top_n) == IF IsNone(file) THEN <<>> ELSE FirstN(NamesIn(Get(file)), top_n)

NamesOf(pairs) == [k \in 1..Len(pairs) |-> <<pairs[k].a, pairs[k].b>>]

----------------------------------------------------------------------------
(* Demo reset detection *)

\* the step is a run of the detection
RunsDetection == ~IsNone(rst) /\ ~IsNone(rst') /\ Get(rst').runs = Get(rst).runs + 1

\* the broker reports a position with the trade's ticket or position id
InBrokerPositions(trade) ==
    \E p \in Get(rst).positions :
        \/ ~IsNone(trade.ticket) /\ p.ticket = trade.ticket
        \/ ~IsNone(trade.position_id) /\ p.position_id = trade.position_id

\* the history holds, between five minutes before the trade was opened and
\* two minutes after the time t, an OUT deal carrying the trade's ticket or
\* position id
OutDealInWindow(trade, t) ==
    \E d \in Get(rst).history :
        /\ d.entry = "OUT"
        /\ trade.opened_at - 300 <= d.timestamp
        /\ d.timestamp <= t + 120
        /\ \E id \in {trade.ticket, trade.position_id} :
              ~IsNone(id) /\ id \in {d.position_id, d.order, d.deal, d.ticket}

\* the run had to fetch the trade's history and the fetch failed
HistoryFetchFailed(trade) ==
    /\ Get(rst').fails
    /\ ~InBrokerPositions(trade)
    /\ ~(IsNone(trade.ticket) /\ IsNone(trade.position_id))

\* the incident events the step created
NewEvents == SubSeq(Get(rst').events, Len(Get(rst).events) + 1, Len(Get(rst').events))

\* C29: a run of detect_demo_reset_for_open_trades moves an OPEN trade to
\* RESET, with close_reason DEMO_RESET_NO_DEAL_OUT and exactly one incident
\* event classified reset_demo_suspeito, exactly when the trade is not among
\* the broker's positions, the history window holds no OUT deal matching its
\* ticket or position id, the history fetch did not fail and the trade is at
\* least the minimum age old; any other trade is left as it was without an
\* event, and the history is not fetched for a trade that is in the positions.
C29_ResetIffMissingEverywhere ==
    [][RunsDetection =>
        \A k \in 1..Len(Get(rst).trades) :
            LET trade == Get(rst).trades[k]
                after == Get(rst').trades[k]
                t == Get(rst').current
                events == {j \in 1..Len(NewEvents) : NewEvents[j].trade = k}
                marks == /\ trade.status = "OPEN"
                         /\ ~InBrokerPositions(trade)
                         /\ ~OutDealInWindow(trade, t)
                         /\ ~HistoryFetchFailed(trade)
                         /\ t - trade.opened_at >= 180
            IN  /\ marks => /\ after.status = "RESET"
                            /\ after.close_reason = "DEMO_RESET_NO_DEAL_OUT"
                            /\ Cardinality(events) = 1
                            /\ \A j \in events :
                                  NewEvents[j].classification = "reset_demo_suspeito"
                /\ ~marks => after = trade /\ events = {}
                /\ InBrokerPositions(trade) => k \notin Get(rst').fetched]_vars

\* of two trades the first was moved to RESET with its one event while the
\* second, whose OUT deal is in the history, stayed OPEN
C29_Witness ==
    /\ ~IsNone(rst)
    /\ Get(rst).runs = 1
    /\ Len(Get(rst).trades) = 2
    /\ Get(rst).trades[1].status = "RESET"
    /\ Get(rst).trades[1].close_reason = "DEMO_RESET_NO_DEAL_OUT"
    /\ Get(rst).events = <<[trade |-> 1, classification |-> "reset_demo_suspeito"]>>
    /\ Get(rst).trades[2].status = "OPEN"
    /\ Get(rst).trades[2].opened_at = 0
    /\ Get(rst).positions = {}
    /\ Get(rst).current >= 180
    /\ ~Get(rst).fails

----------------------------------------------------------------------------
(* Order of the checks of step *)

\* The outcome the step of runtime i reported is the first that applies, and
\* no later stage has run.
FirstOutcomeInOrder(i) ==
    LET before == runtimes[i]
        after == runtimes'[i]
        s == Snap(after)
        u == update(before.z, Get(s.spread))
        g == entry_block_reason([before EXCEPT !.z = u.self], Get(u.z))
    IN  IF IsNone(s.pa) \/ IsNone(s.pb)
        THEN s.signal = "NO_TICK" /\ Core(after) = Core(before)
        ELSE IF LegStale(before, before.cfg.a) \/ LegStale(before, before.cfg.b)
        THEN s.signal = "STALE" /\ Core(after) = Core(before)
        ELSE IF s.sameA /\ s.sameB
        THEN s.signal = "QUIET" /\ Core(after) = Core(before)
        ELSE IF IsNone(u.z)
        THEN /\ s.signal = "WARMING"
             /\ last_res'.res.len = 2
             /\ after.z = u.self
             /\ after.engine = before.engine
             /\ after.confirm_count = before.confirm_count
             /\ after.prev_abs_z = before.prev_abs_z
        ELSE IF IsNone(before.engine.pos) /\ g.block
        THEN /\ s.signal = "HOLD"
             /\ last_res'.res.len = 2
             /\ after.z = u.self
             /\ after.engine = before.engine
        ELSE /\ last_res'.res.len = 7
             /\ s.signal = last_res'.res.status
             /\ last_res'.res.status = on_tick(before.engine, Get(u.z), Get(s.spread)).status
             /\ after.z = u.self
             /\ after.engine = on_tick(before.engine, Get(u.z), Get(s.spread)).self

\* the step of runtime i got the tick states of both legs
GotTickStates(i) ==
    /\ StepRan(i)
    /\ last_res'.raised \/ Snap(runtimes'[i]).signal # "MT5_ERR"

\* C30: every cycle in which step has the tick states of both legs reports
\* exactly one outcome, the first that applies in the order NO_TICK, STALE,
\* idle, estimator not ready, entry gate (only if Flat), state machine; stale
\* and idle together are reported STALE and a not-ready cycle leaves the
\* engine alone.
C30_OneOutcomeInOrder ==
    [][\A i \in 1..Len(runtimes) :
          GotTickStates(i) => (~last_res'.raised /\ FirstOutcomeInOrder(i))]_vars

\* every step that returns reports the first outcome that applies
StepOrderWhenStepReturns ==
    [][\A i \in 1..Len(runtimes) :
          (GotTickStates(i) /\ ~last_res'.raised) => FirstOutcomeInOrder(i)]_vars

----------------------------------------------------------------------------
(* The entry gate and the open position *)

\* the directly driven evaluation stage has just run a cycle
GateRan == Len(g_hist') = Len(g_hist) + 1

\* the z, if any, and the signal of its latest cycle
GateLast == g_hist[Len(g_hist)]

\* C31: a cycle that starts with an open position leaves confirm_count and
\* prev_abs_z as they were, and when it computes a z it emits EXIT exactly when
\* |z| <= exit_band, whatever the sigma floor and the confirm mode; otherwise it
\* reports IN_POSITION, and never HOLD.
C31_GateOnlyWhileFlat ==
    [][(GateRan /\ ~IsNone(g_rt.engine.pos)) =>
          /\ g_rt'.confirm_count = g_rt.confirm_count
          /\ g_rt'.prev_abs_z = g_rt.prev_abs_z
          /\ LET last == g_hist'[Len(g_hist')]
             IN  IF IsNone(last.z)
                 THEN last.signal = "WARMING" /\ g_rt'.engine = g_rt.engine
                 ELSE IF ZLe(ZAbs(Get(last.z)), g_rt.engine.exit_band)
                 THEN last.signal = "EXIT" /\ IsNone(g_rt'.engine.pos)
                 ELSE last.signal = "IN_POSITION" /\ g_rt'.engine = g_rt.engine]_vars

\* a position was closed in a cycle whose std is below the sigma floor, under a
\* confirm mode that had not confirmed anything
C31_Witness ==
    /\ Len(g_hist) > 0
    /\ ~GateLast.flat
    /\ GateLast.signal = "EXIT"
    /\ g_rt.confirm_mode # "none"
    /\ SigmaBelow(g_rt)

\* C32: under ConsecutiveConfirm, after any cycle in which the pair is Flat and
\* a z with |z| < enter_z was computed, confirm_count is 0, the sigma floor
\* enabled or not.
C32_CounterResetsBelowThreshold ==
    [][(/\ GateRan
        /\ g_rt.confirm_mode = "consecutive"
        /\ IsNone(g_rt.engine.pos)
        /\ ~IsNone(g_hist'[Len(g_hist')].z)
        /\ ~Qualifies(g_hist'[Len(g_hist')].z, g_rt))
          => g_rt'.confirm_count = 0]_vars

\* the same with the sigma floor disabled
CounterResetsWithoutSigmaFloor ==
    [][(/\ GateRan
        /\ g_rt.confirm_mode = "consecutive"
        /\ g_rt.sigma_min.num = 0
        /\ IsNone(g_rt.engine.pos)
        /\ ~IsNone(g_hist'[Len(g_hist')].z)
        /\ ~Qualifies(g_hist'[Len(g_hist')].z, g_rt))
          => g_rt'.confirm_count = 0]_vars

----------------------------------------------------------------------------
(* The estimator after its warm-up *)

\* the estimator holds the mean and the population std of its current window
StatsOfWindow(e) ==
    LET m == Len(e.values)
    IN  /\ ~IsNone(e.last_mean)
        /\ ~IsNone(e.last_std)
        /\ Get(e.last_mean).s * m = SumSeq(e.values) * Get(e.last_mean).n
        /\ Get(e.last_std).q * m * m * m
             = SumDev(e.values, m, SumSeq(e.values)) * Get(e.last_std).n * Get(e.last_std).n

\* C33: a RollingZScore has a mean and std exactly when its stored count has
\* reached min(warmup, W); from then on every update, ready or not, leaves the
\* mean and std of the window it then holds, and the warm-up branch (both
\* cleared) is never taken again.
C33_NoReturnToWarmup ==
    [][Len(rz_in') = Len(rz_in) + 1 =>
          /\ IsNone(rz'.last_std) = (Len(rz'.values) < Min(rz.warmup, rz.window))
          /\ (Len(rz_in) > 0 /\ ~IsNone(rz.last_std)) => StatsOfWindow(rz')
          /\ (IsNone(rz_out'[Len(rz_out')]) /\ ~IsNone(rz'.last_std)) =>
                /\ Get(rz'.last_std).q = 0
                /\ StatsOfWindow(rz')]_vars

\* after a z was returned the window of 3 went flat: the update is not ready,
\* with mean 0 and std 0 on record
C33_Witness ==
    /\ rz.window = 3 /\ rz.warmup = 2
    /\ rz_in = <<1, 0, 0, 0>>
    /\ ~IsNone(rz_out[2])
    /\ IsNone(rz_out[4])
    /\ ~IsNone(rz.last_std)
    /\ Get(rz.last_std).q = 0
    /\ Get(rz.last_mean).s = 0

----------------------------------------------------------------------------
(* The degenerate fit *)

\* the fit on record has a constant independent sample
ConstantX ==
    /\ ~IsNone(cal)
    /\ \A i, j \in 1..Len(Get(cal).x) : Get(cal).x[i] = Get(cal).x[j]

\* beta = 1.0 and alpha = mean(y) - mean(x)
UnitBetaDefault(c) ==
    /\ c.out.beta.den > 0
    /\ c.out.beta.num = c.out.beta.den
    /\ c.out.alpha.den > 0
    /\ c.out.alpha.num * Len(c.y) = (SumSeq(c.y) - SumSeq(c.x)) * c.out.alpha.den

\* C34: when the independent sample is constant, the fit returns beta = 1.0 and
\* alpha = mean(y) - mean(x) without dividing by zero, in every OLS routine of
\* the repository.
C34_ConstantXDefault ==
    ConstantX => UnitBetaDefault(Get(cal))

\* the same for ols_alpha_beta of pair_calibration.py alone
OlsAlphaBetaConstantXDefault ==
    (ConstantX /\ Get(cal).fn = "ols_alpha_beta") => UnitBetaDefault(Get(cal))

----------------------------------------------------------------------------
(* The position id of a sent order *)

\* the attribute holds an id: an integer other than 0
HasId(attr) == attr.kind = "int" /\ attr.val # 0

\* the deals of the history that carry the order's deal id
MatchingDeals(c) ==
    IF c.history.raises \/ IsNone(c.history.deals) THEN {}
    ELSE {k \in 1..Len(Get(c.history.deals)) :
             Get(c.history.deals)[k].deal = c.result.deal}

\* C35: _resolve_position_id returns the result's own position id when it has
\* one, without querying the deal history; otherwise the position_id of the
\* history deal whose deal id is the result's deal id; and None when the
\* result has no deal id, the query fails or returns nothing, or no deal
\* matches.
C35_ResolvePositionId ==
    ~IsNone(resolved) =>
        LET c == Get(resolved)
        IN  IF HasId(c.result.position)
            THEN c.out.value = Some(c.result.position.val) /\ ~c.out.queried
            ELSE IF HasId(c.result.deal) /\ MatchingDeals(c) # {}
            THEN /\ c.out.queried
                 /\ \E k \in MatchingDeals(c) :
                       c.out.value = Some(Get(c.history.deals)[k].position_id.val)
            ELSE c.out.value = None

\* the result had no position id and its deal was the second of the history
C35_Witness ==
    /\ ~IsNone(resolved)
    /\ Get(resolved).result = OrderResult(IntAttr(0), IntAttr(99))
    /\ ~Get(resolved).history.raises
    /\ ~IsNone(Get(resolved).history.deals)
    /\ Len(Get(Get(resolved).history.deals)) = 2
    /\ Get(Get(resolved).history.deals)[2] = HistoryDeal(IntAttr(99), IntAttr(7))
    /\ Get(resolved).out.value = Some(7)
    /\ Get(resolved).out.queried

----------------------------------------------------------------------------
(* The trade log of a run *)

\* rows alternate ENTER, EXIT, ENTER, ... from an ENTER on, each EXIT with the
\* side of the ENTER before it
AlternatesFromEnter(rows) ==
    \A k \in 1..Len(rows) :
        /\ rows[k].event = (IF k % 2 = 1 THEN "ENTER" ELSE "EXIT")
        /\ rows[k].side \in {"LONG_SPREAD", "SHORT_SPREAD"}
        /\ k % 2 = 0 => rows[k].side = rows[k - 1].side

\* C36: within a run the trade-log records of each pair alternate ENTER, EXIT,
\* ENTER, ... starting with ENTER, every EXIT carries the side of the ENTER
\* before it, and a pair gets at most one record per cycle: a record is
\* written only by the step of its pair, one at a time, and a pair is stepped
\* again only after the cycle has ended.  While the loop runs the position is
\* open exactly when the pair's last record is an ENTER.
C36_TradeLogAlternates ==
    /\ [](\A i \in 1..Len(runtimes) :
             LET rows == TradesOf(PairName(runtimes[i].cfg))
             IN  /\ AlternatesFromEnter(rows)
                 /\ pc = "loop" => IsNone(runtimes[i].engine.pos) = (Len(rows) % 2 = 0))
    /\ [][(trades' # trades =>
               /\ StepRan(idx)
               /\ idx' = idx + 1
               /\ trades' = Append(trades, trades'[Len(trades')])
               /\ trades'[Len(trades')].pair = PairName(runtimes[idx].cfg))
           /\ (idx' # idx => \/ idx' = idx + 1 /\ cycle' = cycle
                             \/ idx' = 1 /\ cycle' = cycle + 1)]_vars

\* a LONG_SPREAD was opened and closed, and a position is open again
C36_Witness ==
    /\ Len(trades) = 3
    /\ trades[1].event = "ENTER" /\ trades[1].side = "LONG_SPREAD"
    /\ trades[2].event = "EXIT" /\ trades[2].side = "LONG_SPREAD"
    /\ trades[3].event = "ENTER"
    /\ pc = "loop"

----------------------------------------------------------------------------
(* ConsecutiveConfirm: the counter *)

\* what _entry_block_reason did in the cycle just run, which began Flat and
\* computed a z: the runtime it left and whether it blocked
GateCall == entry_block_reason([g_rt EXCEPT !.z = g_rt'.z], Get(g_hist'[Len(g_hist')].z))

\* C37: under ConsecutiveConfirm, a cycle the gate lets through (the counter
\* reaches 2) emits ENTER and leaves the counter at 0, and no other cycle emits
\* ENTER; the counter is 0 or 1 at the end of every cycle and never exceeds 2
\* inside one.
C37_CounterAtMostTwo ==
    /\ [](g_rt.confirm_mode = "consecutive" => g_rt.confirm_count \in {0, 1})
    /\ [][(GateRan /\ g_rt.confirm_mode = "consecutive") =>
             LET last == g_hist'[Len(g_hist')]
             IN  IF IsNone(g_rt.engine.pos) /\ ~IsNone(last.z)
                 THEN /\ GateCall.self.confirm_count <= 2
                      /\ ~GateCall.block =>
                            /\ GateCall.self.confirm_count = 2
                            /\ last.signal = "ENTER"
                            /\ ~IsNone(g_rt'.engine.pos)
                            /\ g_rt'.confirm_count = 0
                      /\ GateCall.block =>
                            /\ last.signal = "HOLD"
                            /\ g_rt'.confirm_count = GateCall.self.confirm_count
                 ELSE last.signal # "ENTER"]_vars

\* a qualifying cycle was held with the counter at 1 and the next one entered
C37_Witness ==
    /\ g_rt.confirm_mode = "consecutive"
    /\ Len(g_hist) >= 2
    /\ g_hist[Len(g_hist) - 1].signal = "HOLD"
    /\ Qualifies(g_hist[Len(g_hist) - 1].z, g_rt)
    /\ GateLast.signal = "ENTER"
    /\ g_rt.confirm_count = 0
    /\ ~IsNone(g_rt.engine.pos)

----------------------------------------------------------------------------
(* IncreasingConfirm: the first evaluation *)

\* cycle k began Flat and computed a z, so the gate was evaluated in it
GateEvaluated(k) == g_hist[k].flat /\ ~IsNone(g_hist[k].z)

\* C38: under IncreasingConfirm every ENTER is preceded by another gate
\* evaluation made since the start and since the last EXIT, so the first
\* evaluation after either never emits ENTER; and a cycle that begins with no
\* previous |z| on record never emits ENTER, whatever its z.
C38_FirstEvaluationNeverEnters ==
    /\ [](g_rt.confirm_mode = "increasing" =>
             \A k \in 1..Len(g_hist) :
                g_hist[k].signal = "ENTER" =>
                   /\ GateEvaluated(k)
                   /\ \E j \in 1..(k - 1) :
                         /\ GateEvaluated(j)
                         /\ \A m \in j..(k - 1) : g_hist[m].signal \notin {"ENTER", "EXIT"})
    /\ [][(GateRan /\ g_rt.confirm_mode = "increasing" /\ IsNone(g_rt.prev_abs_z)) =>
             g_hist'[Len(g_hist')].signal # "ENTER"]_vars
    /\ [](g_rt.confirm_mode = "increasing" /\ Len(g_hist) > 0 /\ GateLast.signal = "EXIT"
             => IsNone(g_rt.prev_abs_z))

\* after an EXIT, the first evaluation was held although |z| >= enter_z
C38_Witness ==
    /\ g_rt.confirm_mode = "increasing"
    /\ Len(g_hist) >= 2
    /\ g_hist[Len(g_hist) - 1].signal = "EXIT"
    /\ GateLast.signal = "HOLD"
    /\ Qualifies(GateLast.z, g_rt)
    /\ ~SigmaBelow(g_rt)

----------------------------------------------------------------------------
(* The open position *)

\* C39: with enter_z > 0, an open SHORT_SPREAD has entry_z >= enter_z and an
\* open LONG_SPREAD has entry_z <= -enter_z; the position's side, entry_z and
\* entry_spread are those of the call that opened it and no call changes them
\* while it stays open.
C39_PositionFixedWhileOpen ==
    /\ []((eng.enter_z.num > 0 /\ ~IsNone(eng.pos)) =>
             LET p == Get(eng.pos)
             IN  /\ p.side \in {"SHORT_SPREAD", "LONG_SPREAD"}
                 /\ p.side = "SHORT_SPREAD" => ZGe(p.entry_z, eng.enter_z)
                 /\ p.side = "LONG_SPREAD" => ZLe(p.entry_z, RatNeg(eng.enter_z)))
    /\ [][(eng.enter_z.num > 0 /\ Len(eng_in') = Len(eng_in) + 1) =>
             /\ (~IsNone(eng.pos) /\ ~IsNone(eng'.pos)) => eng'.pos = eng.pos
             /\ (IsNone(eng.pos) /\ ~IsNone(eng'.pos)) =>
                   /\ Get(eng'.pos).entry_z = eng_in'[Len(eng_in')].z
                   /\ Get(eng'.pos).entry_spread = eng_in'[Len(eng_in')].spread
                   /\ Get(eng'.pos).side = eng_out'[Len(eng_out')].side
             /\ eng'.enter_z = eng.enter_z]_vars

\* a LONG_SPREAD opened at z = -2.5 and spread 3 is still open two calls later,
\* after calls with other z and spread
C39_Witness ==
    /\ eng.enter_z = Rat(2, 1)
    /\ Len(eng_in) = 3
    /\ eng_out[1].status = "ENTER"
    /\ eng_in[1].z = ZVal(-5, 4) /\ eng_in[1].spread = 3
    /\ eng_in[3].z = ZVal(1, 1) /\ eng_in[3].spread = 0
    /\ eng_out[3].status = "IN_POSITION"
    /\ eng.pos = Some(Position("LONG_SPREAD", ZVal(-5, 4), 3))

----------------------------------------------------------------------------
(* The replay's trade and the engine's position *)

\* the replay has just run a bar
ReplayBarRan ==
    /\ ~IsNone(rp)
    /\ ~IsNone(rp')
    /\ Get(rp).pc = "run"
    /\ Get(rp').idx = Get(rp).idx + 1

\* what the engine returns for the bar about to run, when the bar reaches it:
\* on_tick on the spread of the bar under the calibration then in force
EngineOnBar ==
    LET me == maybe_recalibrate(Get(rp).self, Get(rp).idx + 1).self
        bar == me.bars[Get(rp).idx + 1]
        spread == ReplaySpread(Get(me.alpha), Get(me.beta), bar.price_a, bar.price_b)
    IN  on_tick(me.signal, Get(update(me.z_score, spread).z), spread)

\* C40: after every bar of run() the replay's TradeState is present iff the
\* engine holds a position, with the same side, entry spread and entry z; a
\* bar writes a trade row exactly when the engine closed its position on it,
\* one row, with the side of that position and the P&L on_tick returned.
C40_TradeMirrorsEngine ==
    /\ [](~IsNone(rp) =>
             LET self == Get(rp).self
             IN  /\ IsNone(self.trade) = IsNone(self.signal.pos)
                 /\ ~IsNone(self.trade) =>
                       /\ Get(self.trade).side = Get(self.signal.pos).side
                       /\ Get(self.trade).entry_spread = Get(self.signal.pos).entry_spread
                       /\ Get(self.trade).entry_z = Get(self.signal.pos).entry_z)
    /\ [][ReplayBarRan =>
             LET exits == /\ ~IsNone(Get(rp).self.signal.pos)
                          /\ IsNone(Get(rp').self.signal.pos)
             IN  /\ Len(Get(rp').log) = Len(Get(rp).log) + (IF exits THEN 1 ELSE 0)
                 /\ SubSeq(Get(rp').log, 1, Len(Get(rp).log)) = Get(rp).log
                 /\ exits =>
                       LET row == Get(rp').log[Len(Get(rp').log)]
                       IN  /\ EngineOnBar.status = "EXIT"
                           /\ row.side = EngineOnBar.side
                           /\ row.side = Get(Get(rp).self.signal.pos).side
                           /\ Some(row.pnl_spread) = EngineOnBar.pnl]_vars

\* a SHORT_SPREAD was closed on the bar just run, with a P&L other than 0: its
\* row is the last of the log and no trade is left
C40_Witness ==
    /\ ~IsNone(rp)
    /\ Len(Get(rp).log) >= 1
    /\ Get(rp).log[Len(Get(rp).log)].side = "SHORT_SPREAD"
    /\ Get(rp).log[Len(Get(rp).log)].pnl_spread # 0
    /\ Get(rp).log[Len(Get(rp).log)].exit_date = Get(rp).idx
    /\ IsNone(Get(rp).self.trade)
    /\ IsNone(Get(rp).self.signal.pos)

====
